---- MODULE Spec2Model ----
(***************************************************************************)
(* A model of tsuku-llm, the local LLM inference daemon of tsukumogami's   *)
(* tsuku: the single-instance lock of the supervisor (main.rs), the model  *)
(* download of ModelManager (models.rs), the serving phase with its        *)
(* request handlers, idle timeout and graceful drain (main.rs), and the    *)
(* model selection of ModelSelector (model.rs).                            *)
(*                                                                         *)
(* The parts are specifications over one set of variables:                 *)
(*   SpecLock      concurrent `serve` invocations sharing TSUKU_HOME       *)
(*   SpecDownload  ModelManager::download on one manifest entry            *)
(*   SpecComplete  the RPC handlers of a daemon that stays in its loop     *)
(*   SpecServe     the handlers, the event loop, the drain and the exit    *)
(*   SpecServeFair SpecServe with main scheduled after a shutdown trigger  *)
(*   SpecSelect    ModelSelector::select on one profile, config, manifest  *)
(*   SpecGenerate  one Complete request from tokenization to response      *)
(*   SpecExtract   extract_json on one text, and on its own result         *)
(*   SpecStartup   main from the availability check to the event loop,     *)
(*                 with the download and a SIGTERM at any moment           *)
(*   SpecStartupFair  SpecStartup with main scheduled                      *)
(*   SpecDuration  parse_duration on one argument of --idle-timeout        *)
(*   SpecShutdown  SpecServe with the Shutdown RPC taken step by step      *)
(* Each specification parks the variables of the other parts.              *)
(***************************************************************************)
EXTENDS Integers, Sequences, FiniteSets, TLC

(***************************************************************************)
(* Bounds of the model.                                                    *)
(***************************************************************************)
\* Number of `serve` invocations that share one TSUKU_HOME.
NProcs == 3
\* Largest split_count of a manifest entry.
MaxSplit == 2
\* Number of Complete requests sent to one daemon.
NRequests == 2
\* Largest number of tokens a request generates (its max_tokens).
MaxTokens == 1
\* Number of those requests sent to the daemon whose shutdown is followed.
NServed == 1
\* The idle timeout of `serve`, in poll intervals.
IdleTimeout == 1
\* SHUTDOWN_GRACE_PERIOD (10 s), in poll intervals.
GraceTicks == 2
\* Capacity of the activity channel (16 in main), scaled down.
ActivityCapacity == 1
\* Longest argument given to parse_duration, in characters.
MaxDurLen == 6
\* Number of tokens of a tokenized prompt.
PromptTokens == 1
\* Largest positive max_tokens of a request followed in detail.
MaxReqTokens == 3
\* Largest number of tokens of the prompt of that request.
MaxPromptLen == 3
\* The small context size (n_ctx) that request may meet.
NCtxSmall == 2
\* The large context size: room for a prompt and the default 512 tokens.
NCtxLarge == 1024
\* max_tokens of complete when the request gives none.
DefaultMaxTokens == 512
\* Largest number of bytes of a text given to extract_json.
MaxContentLen == 5

VARIABLES
  \* ---- single-instance lock (SpecLock) ----
  lk_pc,        \* lk_pc[p]: where invocation p stands in main()
  lk_fd,        \* lk_fd[p]: inode the lock File of p refers to (0: no open file)
  lock_path,    \* inode the directory entry <socket>.lock refers to (0: no entry)
  flock_owner,  \* flock_owner[i]: invocation holding LOCK_EX on inode i (0: none)
  next_inode,   \* next inode number the file system hands out
  sock_path,    \* invocation whose listener the entry llm.sock refers to (0: none)
  lk_exit       \* lk_exit[p]: how p exited: none, zero, nonzero, lock_held

lockVars == <<lk_pc, lk_fd, lock_path, flock_owner, next_inode, sock_path, lk_exit>>

VARIABLES
  \* ---- model download (SpecDownload) ----
  dl_known,         \* whether model_name has an entry in the manifest
  dl_sha256,        \* entry.sha256 as a digest (EmptySha: the empty string)
  dl_split_count,   \* entry.split_count
  final_files,      \* final_files[k]: the file under the final name of part k
  staging_files,    \* staging_files[k]: the .download/<...>.part file of part k
  dl_pc,            \* position inside download ("idle": no call is running)
  dl_part,          \* index i + 1 of the split loop (1 for a single-part model)
  dl_attempt,       \* attempt of the retry loop
  dl_body,          \* body of the HTTP response being streamed
  bytes_downloaded, \* chunks of the body received so far
  hasher,           \* bytes fed to the streaming Sha256 so far
  dl_delay,         \* seconds of the back-off sleep in progress (0: none)
  dl_result,        \* result of the last download call
  dl_path,          \* part whose final path the last call returned (0: none)
  http_requests,    \* HTTP requests issued by the current call
  cb_invoked,       \* whether the current call invoked the progress callback
  dl_fetches,       \* dl_fetches[k]: HTTP requests of the current call for part k
  verify_result     \* result of the last verify call

dlVars == <<dl_known, dl_sha256, dl_split_count, final_files, staging_files, dl_pc,
            dl_part, dl_attempt, dl_body, bytes_downloaded, hasher, dl_delay,
            dl_result, dl_path, http_requests, cb_invoked, dl_fetches,
            verify_result>>

VARIABLES
  \* ---- serving phase (SpecServe) ----
  shutting_down,    \* LlmServer::shutting_down
  in_flight,        \* LlmServer::in_flight
  rq_pc,            \* rq_pc[r]: where the handler of Complete request r stands
  rq_status,        \* rq_status[r]: RPC status request r returned ("none" so far)
  rq_out,           \* rq_out[r]: output_tokens.len() of request r
  ctx_owner,        \* request holding the MutexGuard of the context (0: none)
  kv_owner,         \* request whose tokens the KV cache holds (0: cleared)
  kv_len,           \* number of tokens decoded into the KV cache
  activity_ch,      \* signals queued in the activity channel
  shutdown_ch,      \* signals queued in the shutdown channel
  srv_state,        \* state of the tonic server future
  sup_pc,           \* position of main() in the serving phase
  shutdown_reason,  \* shutdown_reason of main
  idle_left,        \* poll intervals from now to idle_deadline (0: reached)
  since_recv,       \* poll intervals since the loop started or last took an
                    \* activity signal, up to IdleTimeout
  since_drop,       \* poll intervals since a try_send last dropped its signal,
                    \* up to IdleTimeout (IdleTimeout: none dropped)
  dr_elapsed,       \* start.elapsed() of wait_for_in_flight, up to the grace period
  dr_count,         \* count last read by wait_for_in_flight (-1: none)
  dr_sleep,         \* poll intervals left of the 100 ms sleep of the drain
  dr_result,        \* why wait_for_in_flight returned ("none" so far)
  sigterm_pending,  \* a SIGTERM has arrived and no recv() has taken it yet
  sigterm_in_drain, \* a SIGTERM arrived after the shutdown trigger was taken
  socket_exists,    \* the socket file exists
  lock_exists,      \* the lock file exists
  \* ---- model selection (SpecSelect) ----
  manifest,         \* ModelSelector.manifest: name -> supported_backends
  config,           \* ModelSelector.config (local_model, local_backend)
  profile,          \* the HardwareProfile given to select
  sel_result,       \* what select returned (NoResult before the call)
  \* ---- one Complete request in detail (SpecGenerate) ----
  g_max_tokens_req, \* req.max_tokens
  g_has_tools,      \* !req.tools.is_empty()
  g_input_tokens,   \* tokens.len() of the tokenized prompt
  g_n_ctx,          \* n_ctx of the context
  g_pc,             \* position of complete
  g_pos,            \* pos
  g_logits_idx,     \* logits_idx
  g_iter,           \* turns of the generation loop that ran to their end
  g_out,            \* output_tokens.len()
  g_samples,        \* number of calls of sampler.sample
  g_token,          \* the token the last sample returned (-1: none yet)
  g_timed_out,      \* timed_out
  g_exit,           \* how the generation loop ended ("none" so far)
  g_error,          \* the error of a failed context operation
  g_status,         \* status of the response ("none" so far)
  g_parsed,         \* parse_tool_call gives a tool call on the content
  g_stop_reason,    \* stop_reason of the response
  g_tool_calls,     \* tool_calls.len() of the response
  \* ---- JSON extraction (SpecExtract) ----
  ex_content,       \* the text given to extract_json
  ex_result,        \* what extract_json returned for it
  ex_again,         \* what extract_json returned for that result
  ex_pc             \* how many times extract_json was applied

srvVars == <<shutting_down, in_flight, rq_pc, rq_status, rq_out, ctx_owner, kv_owner,
             kv_len, activity_ch, shutdown_ch, srv_state, sup_pc, shutdown_reason,
             idle_left, since_recv, since_drop, dr_elapsed, dr_count, dr_sleep,
             dr_result, sigterm_pending, sigterm_in_drain, socket_exists, lock_exists>>

selVars == <<manifest, config, profile, sel_result>>

genVars == <<g_max_tokens_req, g_has_tools, g_input_tokens, g_n_ctx, g_pc, g_pos,
             g_logits_idx, g_iter, g_out, g_samples, g_token, g_timed_out, g_exit, g_error,
             g_status, g_parsed, g_stop_reason, g_tool_calls>>

exVars == <<ex_content, ex_result, ex_again, ex_pc>>

VARIABLES
  \* ---- startup of main (SpecStartup) ----
  st_pc,            \* where main stands between acquire_lock and the event loop
  st_sigterm,       \* a SIGTERM is pending in the signal stream
  st_socket,        \* the socket file exists
  st_lock,          \* the lock file exists
  st_load,          \* the spawn_blocking load task: none, running, ok, err
  st_arrived,       \* what was in progress when the SIGTERM arrived
  st_taken,         \* the select! whose sigterm.recv() branch completed
  st_served,        \* the daemon has accepted a request
  st_files0         \* the files under final names when main started

stVars == <<st_pc, st_sigterm, st_socket, st_lock, st_load, st_arrived, st_taken,
            st_served, st_files0>>

VARIABLES
  \* ---- parse_duration (SpecDuration) ----
  pd_input,         \* the argument string
  pd_result,        \* what parse_duration returned
  pd_pc             \* start, done

pdVars == <<pd_input, pd_result, pd_pc>>

VARIABLES
  \* ---- the Shutdown RPC, step by step (SpecShutdown) ----
  sd_pc,            \* where the shutdown handler stands: idle, send, respond
  sd_graceful,      \* the graceful field of the request being handled
  sd_accepted       \* the accepted field of the last ShutdownResponse sent

sdVars == <<sd_pc, sd_graceful, sd_accepted>>

vars == <<lockVars, dlVars, srvVars, selVars, genVars, exVars, stVars, pdVars, sdVars>>

\* What the actions of one part leave alone.
notLockVars == <<dlVars, srvVars, selVars, genVars, exVars, stVars, pdVars, sdVars>>
notDlVars == <<lockVars, srvVars, selVars, genVars, exVars, stVars, pdVars, sdVars>>
notSrvVars == <<lockVars, dlVars, selVars, genVars, exVars, stVars, pdVars, sdVars>>
notSelVars == <<lockVars, dlVars, srvVars, genVars, exVars, stVars, pdVars, sdVars>>
notGenVars == <<lockVars, dlVars, srvVars, selVars, exVars, stVars, pdVars, sdVars>>
notExVars == <<lockVars, dlVars, srvVars, selVars, genVars, stVars, pdVars, sdVars>>
notStVars == <<lockVars, dlVars, srvVars, selVars, genVars, exVars, pdVars, sdVars>>
notDlStVars == <<lockVars, srvVars, selVars, genVars, exVars, pdVars, sdVars>>
notPdVars == <<lockVars, dlVars, srvVars, selVars, genVars, exVars, stVars, sdVars>>
notSrvSdVars == <<lockVars, dlVars, selVars, genVars, exVars, stVars, pdVars>>

(***************************************************************************)
(* Single-instance lock: main.rs acquire_lock, cleanup_files and the       *)
(* start-up and exit steps of main that touch the two files.               *)
(***************************************************************************)
Procs == 1..NProcs
Inodes == 1..NProcs

\* Positions of main() after a successful acquire_lock and before the exit.
LockHeldPcs == {"locked", "registered", "stale_removed", "running", "socket_cleaned",
                "lock_cleaned"}

LockInit ==
  /\ lk_pc = [p \in Procs |-> "start"]
  /\ lk_fd = [p \in Procs |-> 0]
  /\ lock_path = 0
  /\ flock_owner = [i \in Inodes |-> 0]
  /\ next_inode = 1
  /\ sock_path = 0
  /\ lk_exit = [p \in Procs |-> "none"]

\* The lock part at rest, for the specifications of the other parts.
LockParked ==
  /\ lk_pc = [p \in Procs |-> "parked"]
  /\ lk_fd = [p \in Procs |-> 0]
  /\ lock_path = 0
  /\ flock_owner = [i \in Inodes |-> 0]
  /\ next_inode = 1
  /\ sock_path = 0
  /\ lk_exit = [p \in Procs |-> "none"]

\* File::options().create(true).read(true).write(true).open(lock): the entry is
\* opened when it exists and a fresh inode is created under it when it does not.
OpenLockFile(p) ==
  /\ lk_pc[p] = "start"
  /\ IF lock_path # 0
       THEN /\ lk_fd' = [lk_fd EXCEPT ![p] = lock_path]
            /\ UNCHANGED <<lock_path, next_inode>>
       ELSE /\ lk_fd' = [lk_fd EXCEPT ![p] = next_inode]
            /\ lock_path' = next_inode
            /\ next_inode' = next_inode + 1
  /\ lk_pc' = [lk_pc EXCEPT ![p] = "opened"]
  /\ UNCHANGED <<flock_owner, sock_path, lk_exit>>
  /\ UNCHANGED notLockVars

\* The process is gone: its open file is closed, which drops its flock.
ReleaseOnExit(p) ==
  [i \in Inodes |-> IF flock_owner[i] = p THEN 0 ELSE flock_owner[i]]

\* libc::flock(fd, LOCK_EX | LOCK_NB): the lock is on the inode behind the fd.
\* EWOULDBLOCK bails with "Another tsuku-llm daemon is already running"; main
\* returns the error and the process exits non-zero without any cleanup.
Flock(p) ==
  /\ lk_pc[p] = "opened"
  /\ IF flock_owner[lk_fd[p]] = 0
       THEN /\ flock_owner' = [flock_owner EXCEPT ![lk_fd[p]] = p]
            /\ lk_pc' = [lk_pc EXCEPT ![p] = "locked"]
            /\ UNCHANGED <<lk_fd, lk_exit>>
       ELSE /\ lk_pc' = [lk_pc EXCEPT ![p] = "exited"]
            /\ lk_exit' = [lk_exit EXCEPT ![p] = "lock_held"]
            /\ lk_fd' = [lk_fd EXCEPT ![p] = 0]
            /\ UNCHANGED flock_owner
  /\ UNCHANGED <<lock_path, next_inode, sock_path>>
  /\ UNCHANGED notLockVars

\* signal(SignalKind::terminate()), right after acquire_lock and before the
\* socket is touched; its `?` returns from main: exit non-zero, no cleanup.
RegisterSigterm(p) ==
  /\ lk_pc[p] = "locked"
  /\ \/ /\ lk_pc' = [lk_pc EXCEPT ![p] = "registered"]
        /\ UNCHANGED <<lk_fd, flock_owner, lk_exit>>
     \/ /\ lk_pc' = [lk_pc EXCEPT ![p] = "exited"]
        /\ lk_exit' = [lk_exit EXCEPT ![p] = "nonzero"]
        /\ lk_fd' = [lk_fd EXCEPT ![p] = 0]
        /\ flock_owner' = ReleaseOnExit(p)
  /\ UNCHANGED <<lock_path, next_inode, sock_path>>
  /\ UNCHANGED notLockVars

\* A main that removes the socket file before it calls acquire_lock's flock.
StaleRemovalPc_BeforeLock == "opened"

\* Where main stands when it removes a stale socket: the lock is held and the
\* SIGTERM stream is registered.
StaleRemovalPc == "registered"

\* "Now that we have the lock, remove stale socket if it exists".
RemoveStaleSocket(p) ==
  /\ lk_pc[p] = StaleRemovalPc
  /\ sock_path' = 0
  /\ lk_pc' = [lk_pc EXCEPT ![p] = "stale_removed"]
  /\ UNCHANGED <<lk_fd, lock_path, flock_owner, next_inode, lk_exit>>
  /\ UNCHANGED notLockVars

\* UnixListener::bind(&socket): fails when the entry exists (EADDRINUSE), and
\* then main returns the error: exit non-zero, nothing cleaned up.
BindSocket(p) ==
  /\ lk_pc[p] = "stale_removed"
  /\ IF sock_path = 0
       THEN /\ sock_path' = p
            /\ lk_pc' = [lk_pc EXCEPT ![p] = "running"]
            /\ UNCHANGED <<lk_fd, flock_owner, lk_exit>>
       ELSE /\ lk_pc' = [lk_pc EXCEPT ![p] = "exited"]
            /\ lk_exit' = [lk_exit EXCEPT ![p] = "nonzero"]
            /\ lk_fd' = [lk_fd EXCEPT ![p] = 0]
            /\ flock_owner' = ReleaseOnExit(p)
            /\ UNCHANGED sock_path
  /\ UNCHANGED <<lock_path, next_inode>>
  /\ UNCHANGED notLockVars

\* A start-up failure after the bind (model selection, download, model load,
\* context creation): main returns the error, the files stay behind.
StartupFails(p) ==
  /\ lk_pc[p] = "running"
  /\ lk_pc' = [lk_pc EXCEPT ![p] = "exited"]
  /\ lk_exit' = [lk_exit EXCEPT ![p] = "nonzero"]
  /\ lk_fd' = [lk_fd EXCEPT ![p] = 0]
  /\ flock_owner' = ReleaseOnExit(p)
  /\ UNCHANGED <<lock_path, next_inode, sock_path>>
  /\ UNCHANGED notLockVars

\* cleanup_files, first half: if socket.exists() { remove_file(socket) }.
\* Reached after the drain and from the SIGTERM branches of start-up.
CleanupSocket(p) ==
  /\ lk_pc[p] = "running"
  /\ sock_path' = 0
  /\ lk_pc' = [lk_pc EXCEPT ![p] = "socket_cleaned"]
  /\ UNCHANGED <<lk_fd, lock_path, flock_owner, next_inode, lk_exit>>
  /\ UNCHANGED notLockVars

\* cleanup_files, second half: if lock.exists() { remove_file(lock) }. The
\* entry is unlinked by name, whichever inode it refers to by now.
CleanupLock(p) ==
  /\ lk_pc[p] = "socket_cleaned"
  /\ lock_path' = 0
  /\ lk_pc' = [lk_pc EXCEPT ![p] = "lock_cleaned"]
  /\ UNCHANGED <<lk_fd, flock_owner, next_inode, sock_path, lk_exit>>
  /\ UNCHANGED notLockVars

\* std::process::exit(0).
ExitZero(p) ==
  /\ lk_pc[p] = "lock_cleaned"
  /\ lk_pc' = [lk_pc EXCEPT ![p] = "exited"]
  /\ lk_exit' = [lk_exit EXCEPT ![p] = "zero"]
  /\ lk_fd' = [lk_fd EXCEPT ![p] = 0]
  /\ flock_owner' = ReleaseOnExit(p)
  /\ UNCHANGED <<lock_path, next_inode, sock_path>>
  /\ UNCHANGED notLockVars

NextLock ==
  \E p \in Procs :
    \/ OpenLockFile(p)
    \/ Flock(p)
    \/ RegisterSigterm(p)
    \/ RemoveStaleSocket(p)
    \/ BindSocket(p)
    \/ StartupFails(p)
    \/ CleanupSocket(p)
    \/ CleanupLock(p)
    \/ ExitZero(p)

(***************************************************************************)
(* Model download: models.rs ModelManager.  A file's bytes are a sequence  *)
(* of chunks; the server answers a fetch with one of Bodies.               *)
(***************************************************************************)
Parts == 1..MaxSplit

NoFile == [exists |-> FALSE, data |-> <<>>]
File(d) == [exists |-> TRUE, data |-> d]

\* The body the manifest's checksum was computed from, and another one (a
\* wrong or corrupted answer) that is a proper prefix of it.
GoodBody == <<1, 2>>
BadBody == <<1>>
Bodies == {GoodBody, BadBody}

\* format!("{:x}", Sha256(bytes)): a digest, modelled as an injective code of
\* the byte sequence; it is never the empty string, which EmptySha stands for.
EmptySha == 0
RECURSIVE Sha256(_)
Sha256(bytes) ==
  IF bytes = <<>> THEN 1
  ELSE 3 * Sha256(SubSeq(bytes, 1, Len(bytes) - 1)) + bytes[Len(bytes)]

\* A manifest checksum no served body has (the all-zero digest of the tests).
BogusSha == Sha256(<<2>>)

\* A retry loop with one more turn.
MaxAttempts_OneMore == 3 + 1

\* for attempt in 1..=3
MaxAttempts == 3

\* model_path: the first part's final path (the only one for a single file).
ModelPath == 1

\* all_model_paths: every split part for a split entry, else <name>.gguf.
AllModelPaths ==
  IF dl_known /\ dl_split_count > 1 THEN 1..dl_split_count ELSE {1}

\* A verify that takes every existing file for valid.
Verify_ExistsOnly ==
  IF ~dl_known THEN "NotInManifest"
  ELSE IF final_files[ModelPath].exists THEN "true" ELSE "false"

\* verify: Err(NotInManifest), Ok(false) or Ok(true), as a string.
Verify ==
  IF ~dl_known THEN "NotInManifest"
  ELSE IF ~final_files[ModelPath].exists THEN "false"
  ELSE IF dl_sha256 = EmptySha THEN "true"
  ELSE IF Sha256(final_files[ModelPath].data) # dl_sha256 THEN "false"
  ELSE "true"

\* is_available: all paths exist and verify says Ok(true).
IsAvailable ==
  /\ \A k \in AllModelPaths : final_files[k].exists
  /\ Verify = "true"

DlInit ==
  /\ dl_known \in BOOLEAN
  /\ dl_sha256 \in {EmptySha, Sha256(GoodBody), BogusSha}
  /\ dl_split_count \in 1..MaxSplit
  /\ (~dl_known) => (dl_sha256 = EmptySha /\ dl_split_count = 1)
  /\ final_files \in [Parts -> {NoFile, File(GoodBody), File(BadBody)}]
  /\ \A k \in Parts : k > dl_split_count => final_files[k] = NoFile
  /\ staging_files = [k \in Parts |-> NoFile]
  /\ dl_pc = "idle"
  /\ dl_part = 1
  /\ dl_attempt = 0
  /\ dl_body = <<>>
  /\ bytes_downloaded = 0
  /\ hasher = <<>>
  /\ dl_delay = 0
  /\ dl_result = "none"
  /\ dl_path = 0
  /\ http_requests = 0
  /\ cb_invoked = FALSE
  /\ dl_fetches = [k \in Parts |-> 0]
  /\ verify_result = "none"

\* The download part at rest, for the specifications of the other parts.
DlParked ==
  /\ dl_known = FALSE
  /\ dl_sha256 = EmptySha
  /\ dl_split_count = 1
  /\ final_files = [k \in Parts |-> NoFile]
  /\ staging_files = [k \in Parts |-> NoFile]
  /\ dl_pc = "parked"
  /\ dl_part = 1
  /\ dl_attempt = 0
  /\ dl_body = <<>>
  /\ bytes_downloaded = 0
  /\ hasher = <<>>
  /\ dl_delay = 0
  /\ dl_result = "none"
  /\ dl_path = 0
  /\ http_requests = 0
  /\ cb_invoked = FALSE
  /\ dl_fetches = [k \in Parts |-> 0]
  /\ verify_result = "none"

\* The locals of a call that is over (returned, or dropped by a crash).
DlLocalsReset ==
  /\ dl_part' = 1
  /\ dl_attempt' = 0
  /\ dl_body' = <<>>
  /\ bytes_downloaded' = 0
  /\ hasher' = <<>>
  /\ dl_delay' = 0

\* download returns `res` (and the path of part `path` when Ok).
DlReturn(res, path) ==
  /\ dl_pc' = "idle"
  /\ dl_result' = res
  /\ dl_path' = path
  /\ DlLocalsReset

\* A download whose early return is missing.
DlAlreadyAvailable_NoEarlyReturn == FALSE

\* "Check if already downloaded and valid": the early return of download.
DlAlreadyAvailable == IsAvailable

\* download, lines 196-208: manifest lookup, model_path, the is_available check.
DlCall ==
  /\ dl_pc = "idle"
  /\ st_pc = "parked" \/ (st_pc = "download" /\ dl_result = "none")
  /\ http_requests' = 0
  /\ cb_invoked' = FALSE
  /\ dl_fetches' = [k \in Parts |-> 0]
  /\ UNCHANGED verify_result
  /\ IF ~dl_known
       THEN DlReturn("NotInManifest", 0)
       ELSE IF DlAlreadyAvailable
         THEN DlReturn("Ok", ModelPath)
         ELSE /\ dl_pc' = "mkdirs"
              /\ dl_result' = "none"
              /\ dl_path' = 0
              /\ DlLocalsReset
  /\ UNCHANGED <<dl_known, dl_sha256, dl_split_count, final_files, staging_files>>
  /\ UNCHANGED notDlVars

\* fs::create_dir_all of models_dir and .download/, each with `?`.
DlMkdirs ==
  /\ dl_pc = "mkdirs"
  /\ \/ /\ DlReturn("Io", 0)
     \/ /\ dl_pc' = IF dl_split_count > 1 THEN "part_check" ELSE "cleanup_stale"
        /\ UNCHANGED <<dl_part, dl_attempt, dl_body, bytes_downloaded, hasher,
                       dl_delay, dl_result, dl_path>>
  /\ UNCHANGED <<dl_known, dl_sha256, dl_split_count, final_files, staging_files,
                 http_requests, cb_invoked,
                 dl_fetches, verify_result>>
  /\ UNCHANGED notDlVars

\* A split loop that leaves out every other part.
NextPart_Skip(k) == k + 2

\* The split loop goes on with the next (url, path) pair.
NextPart(k) == k + 1

\* Split loop head: past the last part download returns Ok(final_path); a part
\* whose final path exists is skipped; else its retry loop starts.
DlPartCheck ==
  /\ dl_pc = "part_check"
  /\ IF dl_part > dl_split_count
       THEN DlReturn("Ok", ModelPath)
       ELSE IF final_files[dl_part].exists
         THEN /\ dl_part' = NextPart(dl_part)
              /\ UNCHANGED <<dl_pc, dl_attempt, dl_body, bytes_downloaded, hasher,
                             dl_delay, dl_result, dl_path>>
         ELSE /\ dl_attempt' = 1
              /\ dl_pc' = "fetch"
              /\ UNCHANGED <<dl_part, dl_body, bytes_downloaded, hasher,
                             dl_delay, dl_result, dl_path>>
  /\ UNCHANGED <<dl_known, dl_sha256, dl_split_count, final_files, staging_files,
                 http_requests, cb_invoked,
                 dl_fetches, verify_result>>
  /\ UNCHANGED notDlVars

\* Single file: "Clean up existing invalid file", remove_file with `?`.
DlCleanupStale ==
  /\ dl_pc = "cleanup_stale"
  /\ \/ /\ final_files[1].exists
        /\ DlReturn("Io", 0)
        /\ UNCHANGED final_files
     \/ /\ final_files' = [final_files EXCEPT ![1] = NoFile]
        /\ dl_attempt' = 1
        /\ dl_pc' = "fetch"
        /\ UNCHANGED <<dl_part, dl_body, bytes_downloaded, hasher,
                       dl_delay, dl_result, dl_path>>
  /\ UNCHANGED <<dl_known, dl_sha256, dl_split_count, staging_files,
                 http_requests, cb_invoked,
                 dl_fetches, verify_result>>
  /\ UNCHANGED notDlVars

\* self.client.get(url).send().await?.error_for_status()?: a network error or
\* an HTTP error status fails the attempt before the staging file is created.
DlFetch ==
  /\ dl_pc = "fetch"
  /\ http_requests' = http_requests + 1
  /\ dl_fetches' = [dl_fetches EXCEPT ![dl_part] = @ + 1]
  /\ UNCHANGED verify_result
  /\ \/ /\ dl_pc' = "attempt_failed"
        /\ UNCHANGED dl_body
     \/ \E b \in Bodies :
          /\ dl_body' = b
          /\ dl_pc' = "create"
  /\ UNCHANGED <<dl_known, dl_sha256, dl_split_count, final_files, staging_files,
                 dl_part, dl_attempt, bytes_downloaded, hasher, dl_delay,
                 dl_result, dl_path, cb_invoked>>
  /\ UNCHANGED notDlVars

\* File::create(temp_path): creates or truncates the staging file; Sha256::new().
DlCreate ==
  /\ dl_pc = "create"
  /\ \/ /\ dl_pc' = "attempt_failed"
        /\ UNCHANGED <<staging_files, bytes_downloaded, hasher>>
     \/ /\ staging_files' = [staging_files EXCEPT ![dl_part] = File(<<>>)]
        /\ bytes_downloaded' = 0
        /\ hasher' = <<>>
        /\ dl_pc' = "stream"
  /\ UNCHANGED <<dl_known, dl_sha256, dl_split_count, final_files, dl_part,
                 dl_attempt, dl_body, dl_delay, dl_result, dl_path,
                 http_requests, cb_invoked,
                 dl_fetches, verify_result>>
  /\ UNCHANGED notDlVars

\* A single-file path that commits without comparing checksums.
DlAfterStream_NoVerify == "rename"

\* Where a fetch that streamed its whole body goes: the single-file path
\* compares checksums, download_file (split parts) returns Ok at once.
DlAfterStream == IF dl_split_count > 1 THEN "rename" ELSE "verify"

\* One turn of `while let Some(chunk_result) = stream.next().await`: a stream
\* error or a failed write fails the attempt; else the chunk is appended to the
\* staging file, hashed (single file only) and reported to the callback.  At
\* the end of the body: flush, which may fail too.
DlStream ==
  /\ dl_pc = "stream"
  /\ IF bytes_downloaded < Len(dl_body)
       THEN \/ /\ dl_pc' = "attempt_failed"
               /\ UNCHANGED <<staging_files, bytes_downloaded, hasher, cb_invoked>>
            \/ /\ staging_files' =
                    [staging_files EXCEPT ![dl_part] =
                       File(Append(@.data, dl_body[bytes_downloaded + 1]))]
               /\ hasher' = IF dl_split_count > 1 THEN hasher
                            ELSE Append(hasher, dl_body[bytes_downloaded + 1])
               /\ bytes_downloaded' = bytes_downloaded + 1
               /\ cb_invoked' = TRUE
               /\ UNCHANGED dl_pc
       ELSE /\ dl_pc' \in {"attempt_failed", DlAfterStream}
            /\ UNCHANGED <<staging_files, bytes_downloaded, hasher, cb_invoked>>
  /\ UNCHANGED <<dl_known, dl_sha256, dl_split_count, final_files, dl_part,
                 dl_attempt, dl_body, dl_delay, dl_result, dl_path, http_requests,
                 dl_fetches, verify_result>>
  /\ UNCHANGED notDlVars

\* A comparison that lets every digest pass.
ChecksumOk_Always == TRUE

\* "Verify checksum": actual_sha256 != expected_sha256 is ChecksumMismatch.
ChecksumOk == Sha256(hasher) = dl_sha256

DlVerify ==
  /\ dl_pc = "verify"
  /\ dl_pc' = IF ChecksumOk THEN "rename" ELSE "attempt_failed"
  /\ UNCHANGED <<dl_known, dl_sha256, dl_split_count, final_files, staging_files,
                 dl_part, dl_attempt, dl_body, bytes_downloaded, hasher, dl_delay,
                 dl_result, dl_path, http_requests, cb_invoked,
                 dl_fetches, verify_result>>
  /\ UNCHANGED notDlVars

\* fs::rename(&temp_path, path).await?: an error returns from download at once
\* (the staging file stays); else the staging file becomes the final file.
DlRename ==
  /\ dl_pc = "rename"
  /\ \/ /\ DlReturn("Io", 0)
        /\ UNCHANGED <<final_files, staging_files>>
     \/ /\ final_files' = [final_files EXCEPT ![dl_part] = staging_files[dl_part]]
        /\ staging_files' = [staging_files EXCEPT ![dl_part] = NoFile]
        /\ dl_pc' = "committed"
        /\ UNCHANGED <<dl_part, dl_attempt, dl_body, bytes_downloaded, hasher,
                       dl_delay, dl_result, dl_path>>
  /\ UNCHANGED <<dl_known, dl_sha256, dl_split_count, http_requests, cb_invoked,
                 dl_fetches, verify_result>>
  /\ UNCHANGED notDlVars

\* After the rename: the single-file path returns Ok(final_path); the split
\* loop sets downloaded, breaks and goes on with the next part.
DlCommitted ==
  /\ dl_pc = "committed"
  /\ IF dl_split_count > 1
       THEN /\ dl_part' = NextPart(dl_part)
            /\ dl_pc' = "part_check"
            /\ UNCHANGED <<dl_attempt, dl_body, bytes_downloaded, hasher,
                           dl_delay, dl_result, dl_path>>
       ELSE DlReturn("Ok", ModelPath)
  /\ UNCHANGED <<dl_known, dl_sha256, dl_split_count, final_files, staging_files,
                 http_requests, cb_invoked,
                 dl_fetches, verify_result>>
  /\ UNCHANGED notDlVars

\* An Err(e) arm that leaves the staging file in place.
Removed_Kept(f) == f

\* fs::remove_file: the file is gone.
Removed(f) == NoFile

\* Err(e) arm: `let _ = fs::remove_file(&temp_path)`, then the back-off sleep of
\* 1 << (attempt - 1) seconds when attempt < 3, else DownloadFailed{attempts: 3}.
DlAttemptFailed ==
  /\ dl_pc = "attempt_failed"
  /\ staging_files' = [staging_files EXCEPT ![dl_part] = Removed(@)]
  /\ IF dl_attempt < MaxAttempts
       THEN /\ dl_delay' = 2 ^ (dl_attempt - 1)
            /\ dl_pc' = "backoff"
            /\ UNCHANGED <<dl_part, dl_attempt, dl_body, bytes_downloaded, hasher,
                           dl_result, dl_path>>
       ELSE DlReturn("DownloadFailed", 0)
  /\ UNCHANGED <<dl_known, dl_sha256, dl_split_count, final_files,
                 http_requests, cb_invoked,
                 dl_fetches, verify_result>>
  /\ UNCHANGED notDlVars

\* The sleep is over: next attempt.
DlBackoffDone ==
  /\ dl_pc = "backoff"
  /\ dl_delay' = 0
  /\ dl_attempt' = dl_attempt + 1
  /\ dl_pc' = "fetch"
  /\ UNCHANGED <<dl_known, dl_sha256, dl_split_count, final_files, staging_files,
                 dl_part, dl_body, bytes_downloaded, hasher, dl_result, dl_path,
                 http_requests, cb_invoked,
                 dl_fetches, verify_result>>
  /\ UNCHANGED notDlVars

\* A caller runs verify(model_name) while no download is running.
VerifyCall ==
  /\ dl_pc = "idle"
  /\ verify_result' = Verify
  /\ UNCHANGED <<dl_known, dl_sha256, dl_split_count, final_files, staging_files,
                 dl_pc, dl_part, dl_attempt, dl_body, bytes_downloaded, hasher,
                 dl_delay, dl_result, dl_path, http_requests, cb_invoked, dl_fetches>>
  /\ UNCHANGED notDlVars

\* The process dies inside download (a crash, a kill, or main's SIGTERM branch
\* dropping the download future and exiting): the files stay as they are, and
\* the next start calls download again.
DlCrash ==
  /\ dl_pc \notin {"idle", "parked"}
  /\ DlReturn("none", 0)
  /\ UNCHANGED <<dl_known, dl_sha256, dl_split_count, final_files, staging_files,
                 http_requests, cb_invoked,
                 dl_fetches, verify_result>>
  /\ UNCHANGED notDlVars

NextDownload ==
  \/ DlCall
  \/ DlMkdirs
  \/ DlPartCheck
  \/ DlCleanupStale
  \/ DlFetch
  \/ DlCreate
  \/ DlStream
  \/ DlVerify
  \/ DlRename
  \/ DlCommitted
  \/ DlAttemptFailed
  \/ DlBackoffDone
  \/ VerifyCall
  \/ DlCrash

(***************************************************************************)
(* Serving phase: main.rs LlmServer (complete, shutdown, get_status),      *)
(* wait_for_in_flight and the event loop of main.  Time is counted in poll *)
(* intervals of the drain (100 ms).                                        *)
(***************************************************************************)
Requests == 1..NRequests

\* Capacity of the shutdown channel: mpsc::channel::<()>(1).
ShutdownCapacity == 1

\* Positions of a Complete handler between context.lock() and its return.
CtxSection == {"clear", "tokenize", "decode_prompt", "generate", "detokenize", "return"}

\* Positions of a Complete handler that has started and not yet returned.
RunningPcs == {"activity", "incr", "lock"} \cup CtxSection

\* Positions of main between the end of the event loop and the end of the wait.
DrainPcs == {"store", "drain_poll", "drain_select"}

\* The process has not called std::process::exit yet.
Alive == sup_pc # "exited"

\* The daemon at "Server ready": n requests will be sent to it.
SrvInit(n) ==
  /\ shutting_down = FALSE
  /\ in_flight = 0
  /\ rq_pc = [r \in Requests |-> IF r <= n THEN "new" ELSE "parked"]
  /\ rq_status = [r \in Requests |-> "none"]
  /\ rq_out = [r \in Requests |-> 0]
  /\ ctx_owner = 0
  /\ kv_owner = 0
  /\ kv_len = 0
  /\ activity_ch = 0
  /\ shutdown_ch = 0
  /\ srv_state = "serving"
  /\ sup_pc = "loop"
  /\ shutdown_reason = "none"
  /\ idle_left = IdleTimeout
  /\ since_recv = 0
  /\ since_drop = IdleTimeout
  /\ dr_elapsed = 0
  /\ dr_count = -1
  /\ dr_sleep = 0
  /\ dr_result = "none"
  /\ sigterm_pending = FALSE
  /\ sigterm_in_drain = FALSE
  /\ socket_exists = TRUE
  /\ lock_exists = TRUE

SrvParked ==
  /\ shutting_down = FALSE
  /\ in_flight = 0
  /\ rq_pc = [r \in Requests |-> "parked"]
  /\ rq_status = [r \in Requests |-> "none"]
  /\ rq_out = [r \in Requests |-> 0]
  /\ ctx_owner = 0
  /\ kv_owner = 0
  /\ kv_len = 0
  /\ activity_ch = 0
  /\ shutdown_ch = 0
  /\ srv_state = "parked"
  /\ sup_pc = "parked"
  /\ shutdown_reason = "none"
  /\ idle_left = 0
  /\ since_recv = 0
  /\ since_drop = 0
  /\ dr_elapsed = 0
  /\ dr_count = -1
  /\ dr_sleep = 0
  /\ dr_result = "none"
  /\ sigterm_pending = FALSE
  /\ sigterm_in_drain = FALSE
  /\ socket_exists = FALSE
  /\ lock_exists = FALSE

\* Variables of the supervisor, the clock and the two files.
supVars == <<srv_state, sup_pc, shutdown_reason, idle_left, since_recv, dr_elapsed,
             dr_count, dr_sleep, dr_result, sigterm_pending, sigterm_in_drain,
             socket_exists, lock_exists>>

\* activity_tx.try_send(()): queued when there is room, dropped when full.
TrySend(queued) == IF queued < ActivityCapacity THEN queued + 1 ELSE queued

\* The age of the last dropped signal after a try_send on the channel: 0 when
\* this one is dropped.  The age is followed while the event loop runs.
DropAge(queued, age) ==
  IF sup_pc = "loop" /\ queued >= ActivityCapacity THEN 0 ELSE age

\* A handler that admits every request.
Admitted_Always(sd) == TRUE

\* The admission check of complete: if shutting_down.load() { return Err(unavailable) }.
Admitted(sd) == ~sd

\* complete, entry: the shutting_down check.
RqStart(r) ==
  /\ Alive
  /\ rq_pc[r] = "new"
  /\ IF Admitted(shutting_down)
       THEN /\ rq_pc' = [rq_pc EXCEPT ![r] = "activity"]
            /\ UNCHANGED rq_status
       ELSE /\ rq_pc' = [rq_pc EXCEPT ![r] = "done"]
            /\ rq_status' = [rq_status EXCEPT ![r] = "Unavailable"]
  /\ UNCHANGED <<shutting_down, in_flight, rq_out, ctx_owner, kv_owner, kv_len,
                 activity_ch, shutdown_ch, supVars, since_drop>>
  /\ UNCHANGED notSrvVars

\* complete: let _ = self.activity_tx.try_send(()).
RqActivity(r) ==
  /\ Alive
  /\ rq_pc[r] = "activity"
  /\ activity_ch' = TrySend(activity_ch)
  /\ since_drop' = DropAge(activity_ch, since_drop)
  /\ rq_pc' = [rq_pc EXCEPT ![r] = "incr"]
  /\ UNCHANGED <<shutting_down, in_flight, rq_status, rq_out, ctx_owner, kv_owner,
                 kv_len, shutdown_ch, supVars>>
  /\ UNCHANGED notSrvVars

\* complete: self.in_flight.fetch_add(1) and the scopeguard.
RqIncrement(r) ==
  /\ Alive
  /\ rq_pc[r] = "incr"
  /\ in_flight' = in_flight + 1
  /\ rq_pc' = [rq_pc EXCEPT ![r] = "lock"]
  /\ UNCHANGED <<shutting_down, rq_status, rq_out, ctx_owner, kv_owner, kv_len,
                 activity_ch, shutdown_ch, supVars, since_drop>>
  /\ UNCHANGED notSrvVars

\* A mutex that hands out its guard while another guard is alive.
MutexFree_Always(owner) == TRUE

\* tokio::sync::Mutex: lock().await completes when no guard is alive.
MutexFree(owner) == owner = 0

\* complete: let mut ctx = self.context.lock().await.
RqLock(r) ==
  /\ Alive
  /\ rq_pc[r] = "lock"
  /\ MutexFree(ctx_owner)
  /\ ctx_owner' = r
  /\ rq_pc' = [rq_pc EXCEPT ![r] = "clear"]
  /\ UNCHANGED <<shutting_down, in_flight, rq_status, rq_out, kv_owner, kv_len,
                 activity_ch, shutdown_ch, supVars, since_drop>>
  /\ UNCHANGED notSrvVars

\* complete: ctx.clear_kv_cache().
RqClear(r) ==
  /\ Alive
  /\ rq_pc[r] = "clear"
  /\ kv_owner' = 0
  /\ kv_len' = 0
  /\ rq_pc' = [rq_pc EXCEPT ![r] = "tokenize"]
  /\ UNCHANGED <<shutting_down, in_flight, rq_status, rq_out, ctx_owner,
                 activity_ch, shutdown_ch, supVars, since_drop>>
  /\ UNCHANGED notSrvVars

\* A failure path that leaves without dropping its guards.
AfterFailure_Leak == "done"

\* Where a handler goes after a failed context operation: map_err(Status::internal)?
\* leaves the function, which drops ctx and _guard.
AfterFailure == "return"

\* The ? of a failed tokenize, decode or detokenize.
RqFail(r) ==
  /\ rq_pc' = [rq_pc EXCEPT ![r] = AfterFailure]
  /\ rq_status' = [rq_status EXCEPT ![r] = "Internal"]

\* complete: ctx.tokenize(&prompt, true, true).
RqTokenize(r) ==
  /\ Alive
  /\ rq_pc[r] = "tokenize"
  /\ \/ /\ rq_pc' = [rq_pc EXCEPT ![r] = "decode_prompt"]
        /\ UNCHANGED rq_status
     \/ RqFail(r)
  /\ UNCHANGED <<shutting_down, in_flight, rq_out, ctx_owner, kv_owner, kv_len,
                 activity_ch, shutdown_ch, supVars, since_drop>>
  /\ UNCHANGED notSrvVars

\* The KV cache after request r decoded n more tokens into it.
Decoded(r, n) ==
  /\ kv_owner' = IF kv_owner \in {0, r} THEN r ELSE -1
  /\ kv_len' = kv_len + n

\* complete: ctx.decode(&tokens, 0).
RqDecodePrompt(r) ==
  /\ Alive
  /\ rq_pc[r] = "decode_prompt"
  /\ \/ /\ Decoded(r, PromptTokens)
        /\ rq_pc' = [rq_pc EXCEPT ![r] = "generate"]
        /\ UNCHANGED rq_status
     \/ /\ RqFail(r)
        /\ UNCHANGED <<kv_owner, kv_len>>
  /\ UNCHANGED <<shutting_down, in_flight, rq_out, ctx_owner,
                 activity_ch, shutdown_ch, supVars, since_drop>>
  /\ UNCHANGED notSrvVars

\* complete: one turn of `for _ in 0..max_tokens`: the time-out check, get_logits
\* and sample, the EOS check, push, and the decode of the new token.
RqGenerate(r) ==
  /\ Alive
  /\ rq_pc[r] = "generate"
  /\ \/ \* the loop is over: max_tokens turns, the time-out or an EOS token
        /\ rq_pc' = [rq_pc EXCEPT ![r] = "detokenize"]
        /\ UNCHANGED <<rq_status, rq_out, kv_owner, kv_len>>
     \/ \* a token was sampled, pushed and decoded
        /\ rq_out[r] < MaxTokens
        /\ rq_out' = [rq_out EXCEPT ![r] = @ + 1]
        /\ Decoded(r, 1)
        /\ UNCHANGED <<rq_pc, rq_status>>
     \/ \* a token was sampled and pushed, and its decode failed
        /\ rq_out[r] < MaxTokens
        /\ rq_out' = [rq_out EXCEPT ![r] = @ + 1]
        /\ RqFail(r)
        /\ UNCHANGED <<kv_owner, kv_len>>
  /\ UNCHANGED <<shutting_down, in_flight, ctx_owner,
                 activity_ch, shutdown_ch, supVars, since_drop>>
  /\ UNCHANGED notSrvVars

\* complete: ctx.detokenize(&output_tokens) and the building of the response.
RqDetokenize(r) ==
  /\ Alive
  /\ rq_pc[r] = "detokenize"
  /\ \/ /\ rq_pc' = [rq_pc EXCEPT ![r] = "return"]
        /\ rq_status' = [rq_status EXCEPT ![r] = "Ok"]
     \/ RqFail(r)
  /\ UNCHANGED <<shutting_down, in_flight, rq_out, ctx_owner, kv_owner, kv_len,
                 activity_ch, shutdown_ch, supVars, since_drop>>
  /\ UNCHANGED notSrvVars

\* A return that keeps the MutexGuard alive.
Unlocked_Kept(owner, r) == owner

\* The mutex after the MutexGuard of request r is dropped.
Unlocked(owner, r) == IF owner = r THEN 0 ELSE owner

\* complete, exit of the function on every path: the locals are dropped in
\* reverse order, ctx (the MutexGuard) and then _guard (in_flight.fetch_sub(1)).
RqReturn(r) ==
  /\ Alive
  /\ rq_pc[r] = "return"
  /\ ctx_owner' = Unlocked(ctx_owner, r)
  /\ in_flight' = in_flight - 1
  /\ rq_pc' = [rq_pc EXCEPT ![r] = "done"]
  /\ UNCHANGED <<shutting_down, rq_status, rq_out, kv_owner, kv_len,
                 activity_ch, shutdown_ch, supVars, since_drop>>
  /\ UNCHANGED notSrvVars

\* shutdown_tx.send(()).await: queued when there is room; a send on the full
\* channel waits for a receive.
Send(queued) == IF queued < ShutdownCapacity THEN queued + 1 ELSE queued

\* A shutdown that stores the request's `graceful` field in the flag.
ShutdownFlag_Graceful(graceful) == graceful

\* shutdown: self.shutting_down.store(true, SeqCst), whatever req.graceful is.
ShutdownFlag(graceful) == TRUE

\* shutdown: self.shutting_down.store(true), then shutdown_tx.send(()).await and
\* the ShutdownResponse.
ShutdownRpc ==
  /\ Alive
  /\ \E graceful \in BOOLEAN : shutting_down' = ShutdownFlag(graceful)
  /\ shutdown_ch' = Send(shutdown_ch)
  /\ UNCHANGED <<in_flight, rq_pc, rq_status, rq_out, ctx_owner, kv_owner, kv_len,
                 activity_ch, supVars, since_drop>>
  /\ UNCHANGED notSrvVars

\* StatusResponse.ready: !self.shutting_down.load(SeqCst).
Ready == ~shutting_down

\* get_status: the try_send of the activity signal and the StatusResponse.
GetStatus ==
  /\ Alive
  /\ activity_ch' = TrySend(activity_ch)
  /\ since_drop' = DropAge(activity_ch, since_drop)
  /\ UNCHANGED <<shutting_down, in_flight, rq_pc, rq_status, rq_out, ctx_owner,
                 kv_owner, kv_len, shutdown_ch, supVars>>
  /\ UNCHANGED notSrvVars

\* Variables of the request handlers.
handlerVars == <<shutting_down, in_flight, rq_pc, rq_status, rq_out, ctx_owner,
                 kv_owner, kv_len>>

\* The server future, polled by the event loop: shutdown_rx.recv() completes
\* and the server starts its graceful shutdown.
ServerShutdownSignal ==
  /\ sup_pc = "loop"
  /\ srv_state = "serving"
  /\ shutdown_ch > 0
  /\ shutdown_ch' = shutdown_ch - 1
  /\ srv_state' = "stopping"
  /\ UNCHANGED <<handlerVars, activity_ch, sup_pc, shutdown_reason, idle_left, since_recv, since_drop,
                 dr_elapsed, dr_count, dr_sleep, dr_result, sigterm_pending,
                 sigterm_in_drain, socket_exists, lock_exists>>
  /\ UNCHANGED notSrvVars

\* The event loop leaves with a shutdown reason; idle_deadline is not read again.
LoopBreak(reason) ==
  /\ shutdown_reason' = reason
  /\ sup_pc' = "store"
  /\ idle_left' = 0
  /\ since_recv' = 0
  /\ since_drop' = 0
  /\ UNCHANGED <<handlerVars, activity_ch, shutdown_ch, dr_elapsed,
                 dr_count, dr_sleep, dr_result, sigterm_in_drain, socket_exists,
                 lock_exists>>
  /\ UNCHANGED notSrvVars

\* select!: result = &mut server_future; the server future completes.
LoopServerStopped ==
  /\ sup_pc = "loop"
  /\ srv_state = "stopping"
  /\ srv_state' = "stopped"
  /\ LoopBreak("server stopped")
  /\ UNCHANGED sigterm_pending

\* A timer branch that completes only once no request is in flight.
DeadlinePassed_WhenIdle(left, count) == left = 0 /\ count = 0
\* sleep_until(idle_deadline) is ready: the deadline is reached, whatever
\* in_flight is.
DeadlinePassed(left, count) == left = 0

\* select!: tokio::time::sleep_until(idle_deadline).
LoopIdleTimeout ==
  /\ sup_pc = "loop"
  /\ DeadlinePassed(idle_left, in_flight)
  /\ LoopBreak("idle timeout")
  /\ UNCHANGED <<srv_state, sigterm_pending>>

\* select!: sigterm.recv().
LoopSigterm ==
  /\ sup_pc = "loop"
  /\ sigterm_pending
  /\ sigterm_pending' = FALSE
  /\ LoopBreak("SIGTERM")
  /\ UNCHANGED srv_state

\* A receive that leaves the deadline where it was.
ResetDeadline_Kept(left) == left

\* idle_deadline = Instant::now() + idle_timeout: what is left to the deadline.
ResetDeadline(left) == IdleTimeout

\* select!: activity_rx.recv(); idle_deadline = Instant::now() + idle_timeout.
LoopActivity ==
  /\ sup_pc = "loop"
  /\ activity_ch > 0
  /\ activity_ch' = activity_ch - 1
  /\ idle_left' = ResetDeadline(idle_left)
  /\ since_recv' = 0
  /\ UNCHANGED <<handlerVars, shutdown_ch, srv_state, sup_pc, shutdown_reason,
                 since_drop, dr_elapsed, dr_count, dr_sleep, dr_result, sigterm_pending,
                 sigterm_in_drain, socket_exists, lock_exists>>
  /\ UNCHANGED notSrvVars

\* main: shutting_down.store(true), and the entry of wait_for_in_flight:
\* let start = Instant::now().
SupStore ==
  /\ sup_pc = "store"
  /\ shutting_down' = TRUE
  /\ dr_elapsed' = 0
  /\ sup_pc' = "drain_poll"
  /\ UNCHANGED <<in_flight, rq_pc, rq_status, rq_out, ctx_owner, kv_owner, kv_len,
                 activity_ch, shutdown_ch, srv_state, shutdown_reason, idle_left, since_recv, since_drop,
                 dr_count, dr_sleep, dr_result, sigterm_pending, sigterm_in_drain,
                 socket_exists, lock_exists>>
  /\ UNCHANGED notSrvVars

\* A wait without a grace period: it goes on while requests are in flight.
DrainOutcome_NoGrace(count, elapsed) == IF count = 0 THEN "zero" ELSE "wait"

\* A wait that returns at once, whatever it read.
DrainOutcome_NoWait(count, elapsed) == "zero"

\* wait_for_in_flight, top of the loop: what the count and the elapsed time give.
DrainOutcome(count, elapsed) ==
  IF count = 0 THEN "zero"
  ELSE IF elapsed >= GraceTicks THEN "grace"
  ELSE "wait"

\* wait_for_in_flight: in_flight.load(), the two returns of false, and the start
\* of the select! on the 100 ms sleep and sigterm.recv().
DrainPoll ==
  /\ sup_pc = "drain_poll"
  /\ dr_count' = in_flight
  /\ LET outcome == DrainOutcome(in_flight, dr_elapsed)
     IN  IF outcome = "wait"
           THEN /\ dr_sleep' = 1
                /\ sup_pc' = "drain_select"
                /\ UNCHANGED dr_result
           ELSE /\ dr_result' = outcome
                /\ sup_pc' = "cleanup_socket"
                /\ UNCHANGED dr_sleep
  /\ UNCHANGED <<handlerVars, activity_ch, shutdown_ch, srv_state, shutdown_reason,
                 idle_left, since_recv, since_drop, dr_elapsed, sigterm_pending, sigterm_in_drain,
                 socket_exists, lock_exists>>
  /\ UNCHANGED notSrvVars

\* wait_for_in_flight, select!: the sleep of one poll interval is over.
DrainSleepDone ==
  /\ sup_pc = "drain_select"
  /\ dr_sleep = 0
  /\ sup_pc' = "drain_poll"
  /\ UNCHANGED <<handlerVars, activity_ch, shutdown_ch, srv_state, shutdown_reason,
                 idle_left, since_recv, since_drop, dr_elapsed, dr_count, dr_sleep, dr_result,
                 sigterm_pending, sigterm_in_drain, socket_exists, lock_exists>>
  /\ UNCHANGED notSrvVars

\* A wait that logs the second SIGTERM and goes on polling.
AfterSigterm_KeepWaiting == "drain_poll"

\* Where main goes when sigterm.recv() completes in wait_for_in_flight:
\* return true, and main calls cleanup_files.
AfterSigterm == "cleanup_socket"

\* wait_for_in_flight, select!: sigterm.recv() completes, the sleep is dropped,
\* return true.
DrainSigterm ==
  /\ sup_pc = "drain_select"
  /\ sigterm_pending
  /\ sigterm_pending' = FALSE
  /\ dr_sleep' = 0
  /\ dr_result' = "interrupted"
  /\ sup_pc' = AfterSigterm
  /\ UNCHANGED <<handlerVars, activity_ch, shutdown_ch, srv_state, shutdown_reason,
                 idle_left, since_recv, since_drop, dr_elapsed, dr_count, sigterm_in_drain,
                 socket_exists, lock_exists>>
  /\ UNCHANGED notSrvVars

\* cleanup_files: remove_file(socket).
SupCleanupSocket ==
  /\ sup_pc = "cleanup_socket"
  /\ socket_exists' = FALSE
  /\ sup_pc' = "cleanup_lock"
  /\ UNCHANGED <<handlerVars, activity_ch, shutdown_ch, srv_state, shutdown_reason,
                 idle_left, since_recv, since_drop, dr_elapsed, dr_count, dr_sleep, dr_result,
                 sigterm_pending, sigterm_in_drain, lock_exists>>
  /\ UNCHANGED notSrvVars

\* cleanup_files: remove_file(lock); then main calls std::process::exit(0),
\* and every task of the process ends with it.
SupCleanupLockAndExit ==
  /\ sup_pc = "cleanup_lock"
  /\ lock_exists' = FALSE
  /\ sup_pc' = "exited"
  /\ UNCHANGED <<handlerVars, activity_ch, shutdown_ch, srv_state, shutdown_reason,
                 idle_left, since_recv, since_drop, dr_elapsed, dr_count, dr_sleep, dr_result,
                 sigterm_pending, sigterm_in_drain, socket_exists>>
  /\ UNCHANGED notSrvVars

\* A timer that has n poll intervals left, one interval later.
Elapse(n) == IF n > 0 THEN n - 1 ELSE 0

\* An age counted up to IdleTimeout, one interval later.
Age(n) == IF n < IdleTimeout THEN n + 1 ELSE n

\* One poll interval passes: the idle timer of the event loop, the elapsed
\* time of the drain and its sleep move on.
Tick ==
  /\ Alive
  /\ idle_left' = IF sup_pc = "loop" THEN Elapse(idle_left) ELSE idle_left
  /\ since_recv' = IF sup_pc = "loop" THEN Age(since_recv) ELSE since_recv
  /\ since_drop' = IF sup_pc = "loop" THEN Age(since_drop) ELSE since_drop
  /\ dr_elapsed' = IF sup_pc \in {"drain_poll", "drain_select"} /\ dr_elapsed < GraceTicks
                     THEN dr_elapsed + 1 ELSE dr_elapsed
  /\ dr_sleep' = IF sup_pc = "drain_select" THEN Elapse(dr_sleep) ELSE dr_sleep
  /\ UNCHANGED <<handlerVars, activity_ch, shutdown_ch, srv_state, sup_pc,
                 shutdown_reason, dr_count, dr_result, sigterm_pending,
                 sigterm_in_drain, socket_exists, lock_exists>>
  /\ UNCHANGED notSrvVars

\* The process is sent a SIGTERM; the signal stream keeps one notification
\* until a recv() takes it.  No recv() follows wait_for_in_flight, so a later
\* SIGTERM is without effect and is left out.
SigtermArrives ==
  /\ sup_pc \in {"loop"} \cup DrainPcs
  /\ sigterm_pending' = TRUE
  /\ sigterm_in_drain' = (sigterm_in_drain \/ sup_pc \in DrainPcs)
  /\ UNCHANGED <<handlerVars, activity_ch, shutdown_ch, srv_state, sup_pc,
                 shutdown_reason, idle_left, since_recv, since_drop, dr_elapsed, dr_count, dr_sleep,
                 dr_result, socket_exists, lock_exists>>
  /\ UNCHANGED notSrvVars

\* The handlers of the three RPCs.
NextComplete ==
  \/ \E r \in Requests : RqStart(r)
  \/ \E r \in Requests : RqActivity(r)
  \/ \E r \in Requests : RqIncrement(r)
  \/ \E r \in Requests : RqLock(r)
  \/ \E r \in Requests : RqClear(r)
  \/ \E r \in Requests : RqTokenize(r)
  \/ \E r \in Requests : RqDecodePrompt(r)
  \/ \E r \in Requests : RqGenerate(r)
  \/ \E r \in Requests : RqDetokenize(r)
  \/ \E r \in Requests : RqReturn(r)
  \/ ShutdownRpc
  \/ GetStatus

\* The handlers, the event loop, the drain and the exit of main.
NextServe ==
  \/ \E r \in Requests : RqStart(r)
  \/ \E r \in Requests : RqActivity(r)
  \/ \E r \in Requests : RqIncrement(r)
  \/ \E r \in Requests : RqLock(r)
  \/ \E r \in Requests : RqClear(r)
  \/ \E r \in Requests : RqTokenize(r)
  \/ \E r \in Requests : RqDecodePrompt(r)
  \/ \E r \in Requests : RqGenerate(r)
  \/ \E r \in Requests : RqDetokenize(r)
  \/ \E r \in Requests : RqReturn(r)
  \/ ShutdownRpc
  \/ GetStatus
  \/ ServerShutdownSignal
  \/ LoopServerStopped
  \/ LoopIdleTimeout
  \/ LoopSigterm
  \/ LoopActivity
  \/ SupStore
  \/ DrainPoll
  \/ DrainSleepDone
  \/ DrainSigterm
  \/ SupCleanupSocket
  \/ SupCleanupLockAndExit
  \/ Tick
  \/ SigtermArrives

(***************************************************************************)
(* Model selection: model.rs ModelSelector.  Memory sizes are counted in   *)
(* units of 100 MB (the code counts bytes in a u64, which no sum or        *)
(* product of select can overflow); a string is the sequence of its        *)
(* characters; an Option is a sequence of length 0 (None) or 1 (Some).     *)
(***************************************************************************)
\* GB of model.rs (1_000_000_000 bytes), in units of 100 MB.
GB == 10
VRAM_THRESHOLD_HIGH == 8 * GB
VRAM_THRESHOLD_MED == 4 * GB
RAM_THRESHOLD_HIGH == 16 * GB
RAM_THRESHOLD_MED == 8 * GB
RAM_THRESHOLD_MIN == 4 * GB

\* enum GpuBackend of hardware.rs and enum Backend of model.rs.
GpuBackends == {"Cuda", "Metal", "Vulkan", "None"}
Backends == {"Cuda", "Metal", "Vulkan", "Cpu"}

\* The entries of the bundled manifest (ModelManifest::new).
ModelNames == {"qwen2.5-3b-instruct-q4", "qwen2.5-1.5b-instruct-q4",
               "qwen2.5-0.5b-instruct-q4"}
\* ModelManifest::new(): every bundled entry supports the four backends.
DefaultManifest == [n \in ModelNames |-> Backends]

\* The manifests a selector is built with: the bundled one
\* (ModelSelector::new, with_config) and the ones with_manifest_and_config
\* accepts, here the bundled one with one entry restricted or left out.
Manifests ==
  {DefaultManifest}
    \cup {[DefaultManifest EXCEPT ![n] = B] :
            n \in ModelNames, B \in {{"Cuda"}, {"Cpu"}}}
    \cup {[m \in ModelNames \ {n} |-> Backends] : n \in ModelNames}

\* Hardware profiles: the memory sizes on both sides of every threshold the
\* selection compares with (4, 8, 16 GB in the code; 14 GB in the
\* documented floor).
VramValues == {0, VRAM_THRESHOLD_MED - 1, VRAM_THRESHOLD_MED,
               VRAM_THRESHOLD_HIGH - 1, VRAM_THRESHOLD_HIGH, 14 * GB - 1, 14 * GB}
RamValues == {RAM_THRESHOLD_MIN - 1, RAM_THRESHOLD_MIN, RAM_THRESHOLD_MED - 1,
              RAM_THRESHOLD_MED, RAM_THRESHOLD_HIGH - 1, RAM_THRESHOLD_HIGH}
Profiles == [gpu_backend : GpuBackends, vram_bytes : VramValues, ram_bytes : RamValues]

\* The values of config.local_model: unset, a bundled name, a name in other
\* letter case, an unknown name.
LocalModels == {<<>>} \cup {<<n>> : n \in ModelNames}
                 \cup {<<"QWEN2.5-3B-INSTRUCT-Q4">>, <<"llama-70b">>}
\* The values of config.local_backend: unset, the four names in lower,
\* upper and mixed case, an unknown name, a padded name, the empty string.
LocalBackends ==
  {<<>>,
   << <<"c", "u", "d", "a">> >>, << <<"C", "U", "D", "A">> >>,
   << <<"m", "e", "t", "a", "l">> >>, << <<"M", "e", "t", "a", "l">> >>,
   << <<"v", "u", "l", "k", "a", "n">> >>, << <<"V", "U", "L", "K", "A", "N">> >>,
   << <<"c", "p", "u">> >>, << <<"C", "p", "U">> >>,
   << <<"o", "p", "e", "n", "c", "l">> >>, << <<"c", "p", "u", " ">> >>,
   << <<>> >>}
Configs == [local_model : LocalModels, local_backend : LocalBackends]

\* Result<ModelSpec, SelectionError>: kind is "Ok" or the error variant; the
\* fields of ModelSpec copied from the manifest entry are left out.
Ok(name, backend) == [kind |-> "Ok", name |-> name, backend |-> backend]
Err(kind) == [kind |-> kind, name |-> "", backend |-> ""]
\* select has not been called.
NoResult == [kind |-> "none", name |-> "", backend |-> ""]

\* str::to_lowercase on the letters of the inputs.
Uppercase == <<"A", "B", "C", "D", "E", "F", "G", "H", "I", "J", "K", "L", "M",
               "N", "O", "P", "Q", "R", "S", "T", "U", "V", "W", "X", "Y", "Z">>
Lowercase == <<"a", "b", "c", "d", "e", "f", "g", "h", "i", "j", "k", "l", "m",
               "n", "o", "p", "q", "r", "s", "t", "u", "v", "w", "x", "y", "z">>
to_lowercase(s) ==
  [i \in 1..Len(s) |->
     IF \E j \in 1..Len(Uppercase) : Uppercase[j] = s[i]
     THEN Lowercase[CHOOSE j \in 1..Len(Uppercase) : Uppercase[j] = s[i]]
     ELSE s[i]]

\* impl FromStr for Backend: <<b>> for Ok(b), <<>> for Err.
from_str(s) ==
  LET l == to_lowercase(s)
  IN  IF l = <<"c", "u", "d", "a">> THEN <<"Cuda">>
      ELSE IF l = <<"m", "e", "t", "a", "l">> THEN <<"Metal">>
      ELSE IF l = <<"v", "u", "l", "k", "a", "n">> THEN <<"Vulkan">>
      ELSE IF l = <<"c", "p", "u">> THEN <<"Cpu">>
      ELSE <<>>

\* impl From<GpuBackend> for Backend.
from_gpu(gpu) == IF gpu = "None" THEN "Cpu" ELSE gpu

\* select_model_for_hardware: the table of the bundled models.
select_model_for_hardware_Strict(p) ==
  IF p.gpu_backend # "None"
  THEN IF p.vram_bytes > VRAM_THRESHOLD_HIGH THEN "qwen2.5-3b-instruct-q4"
       ELSE IF p.vram_bytes > VRAM_THRESHOLD_MED THEN "qwen2.5-1.5b-instruct-q4"
       ELSE "qwen2.5-0.5b-instruct-q4"
  ELSE IF p.ram_bytes > RAM_THRESHOLD_HIGH THEN "qwen2.5-3b-instruct-q4"
       ELSE IF p.ram_bytes > RAM_THRESHOLD_MED THEN "qwen2.5-1.5b-instruct-q4"
       ELSE "qwen2.5-0.5b-instruct-q4"
select_model_for_hardware(p) ==
  IF p.gpu_backend # "None"
  THEN IF p.vram_bytes >= VRAM_THRESHOLD_HIGH THEN "qwen2.5-3b-instruct-q4"
       ELSE IF p.vram_bytes >= VRAM_THRESHOLD_MED THEN "qwen2.5-1.5b-instruct-q4"
       ELSE "qwen2.5-0.5b-instruct-q4"
  ELSE IF p.ram_bytes >= RAM_THRESHOLD_HIGH THEN "qwen2.5-3b-instruct-q4"
       ELSE IF p.ram_bytes >= RAM_THRESHOLD_MED THEN "qwen2.5-1.5b-instruct-q4"
       ELSE "qwen2.5-0.5b-instruct-q4"

\* validate_backend: TRUE for Ok(()), FALSE for Err(InvalidConfigBackend).
validate_backend_VulkanOnly(backend, p) ==
  CASE backend = "Cuda" -> p.gpu_backend = "Cuda"
    [] backend = "Metal" -> p.gpu_backend = "Metal"
    [] backend = "Vulkan" -> p.gpu_backend = "Vulkan"
    [] backend = "Cpu" -> TRUE
validate_backend(backend, p) ==
  CASE backend = "Cuda" -> p.gpu_backend = "Cuda"
    [] backend = "Metal" -> p.gpu_backend = "Metal"
    [] backend = "Vulkan" -> p.gpu_backend \in {"Vulkan", "Cuda"}
    [] backend = "Cpu" -> TRUE

\* select_backend: Ok("", backend) or Err("InvalidConfigBackend").
select_backend(c, p) ==
  IF c.local_backend # <<>>
  THEN LET parsed == from_str(c.local_backend[1])
       IN  IF parsed = <<>> THEN Err("InvalidConfigBackend")
           ELSE IF ~validate_backend(parsed[1], p) THEN Err("InvalidConfigBackend")
           ELSE Ok("", parsed[1])
  ELSE Ok("", from_gpu(p.gpu_backend))

\* build_spec_from_override: the path of a configured local_model.
build_spec_from_override_NoBackendCheck(m, c, model_name, p) ==
  IF model_name \notin DOMAIN m THEN Err("InvalidConfigModel")
  ELSE LET b == select_backend(c, p)
       IN  IF b.kind # "Ok" THEN b
           ELSE Ok(model_name, b.backend)
build_spec_from_override(m, c, model_name, p) ==
  IF model_name \notin DOMAIN m THEN Err("InvalidConfigModel")
  ELSE LET b == select_backend(c, p)
       IN  IF b.kind # "Ok" THEN b
           ELSE IF b.backend \notin m[model_name] THEN Err("InvalidConfigBackend")
           ELSE Ok(model_name, b.backend)

\* build_spec: the automatic path; it looks the entry up and copies it.
build_spec(m, model_name, backend) ==
  IF model_name \notin DOMAIN m THEN Err("InvalidConfigModel")
  ELSE Ok(model_name, backend)

\* ModelSelector::select.
select(m, c, p) ==
  IF c.local_model # <<>>
  THEN build_spec_from_override(m, c, c.local_model[1], p)
  ELSE IF p.ram_bytes < RAM_THRESHOLD_MIN THEN Err("InsufficientResources")
  ELSE LET b == select_backend(c, p)
       IN  IF b.kind # "Ok" THEN b
           ELSE build_spec(m, select_model_for_hardware(p), b.backend)

\* A selector built with any manifest and config, given any profile.
SelInit ==
  /\ manifest \in Manifests
  /\ config \in Configs
  /\ profile \in Profiles
  /\ sel_result = NoResult

\* The selection part while another part is followed.
SelParked ==
  /\ manifest = DefaultManifest
  /\ config = [local_model |-> <<>>, local_backend |-> <<>>]
  /\ profile = [gpu_backend |-> "None", vram_bytes |-> 0, ram_bytes |-> 0]
  /\ sel_result = NoResult

\* main calls selector.select(&hardware_profile).
SelectCall ==
  /\ sel_result = NoResult
  /\ sel_result' = select(manifest, config, profile)
  /\ UNCHANGED <<manifest, config, profile>>
  /\ UNCHANGED notSelVars

NextSelect ==
  \/ SelectCall

(***************************************************************************)
(* One Complete request in detail: main.rs LlmServer::complete from the    *)
(* tokenization of the prompt to the response, with LlamaContext::decode   *)
(* of llama/context.rs.  The request holds the context mutex throughout.   *)
(***************************************************************************)
\* The values of req.max_tokens (an i32): negative, 0, and 1..MaxReqTokens.
ReqMaxTokens == -1..MaxReqTokens
\* The context sizes: a small n_ctx that prompts reach, and a large one.
NCtxValues == {NCtxSmall, NCtxLarge}
\* The numbers of tokens of a tokenized prompt.
PromptLens == 0..MaxPromptLen

\* complete: max_tokens = if req.max_tokens > 0 { req.max_tokens } else { 512 },
\* a limit that takes every value but 0 as given.
EffectiveMaxTokens_ZeroOnly(m) == IF m # 0 THEN m ELSE DefaultMaxTokens
EffectiveMaxTokens(m) == IF m > 0 THEN m ELSE DefaultMaxTokens

\* LlamaContext::decode, before llama_decode is called: "noop" for an empty
\* batch, "exceeded" for ContextWindowExceeded, "run" otherwise.
DecodeCheck(n_tokens, pos, n_ctx) ==
  IF n_tokens = 0 THEN "noop"
  ELSE IF pos + n_tokens > n_ctx THEN "exceeded"
  ELSE "run"

\* complete: the stop_reason of the response, a chain that asks for a tool
\* call before it looks at the number of tokens.
StopReason_ToolFirst(timed_out, n_out, max_tokens, has_tools, parsed) ==
  IF timed_out THEN "timeout"
  ELSE IF has_tools /\ parsed THEN "tool_use"
  ELSE IF n_out >= max_tokens THEN "max_tokens"
  ELSE "end_turn"
StopReason(timed_out, n_out, max_tokens, has_tools, parsed) ==
  IF timed_out THEN "timeout"
  ELSE IF n_out >= max_tokens THEN "max_tokens"
  ELSE IF has_tools /\ parsed THEN "tool_use"
  ELSE "end_turn"

\* A request arrives at the tokenization: its max_tokens, whether it has
\* tools, the length its prompt tokenizes to, and the n_ctx of the context.
GenInit ==
  /\ g_max_tokens_req \in ReqMaxTokens
  /\ g_has_tools \in BOOLEAN
  /\ g_input_tokens \in PromptLens
  /\ g_n_ctx \in NCtxValues
  /\ g_pc = "tokenize"
  /\ g_pos = 0
  /\ g_logits_idx = 0
  /\ g_iter = 0
  /\ g_out = 0
  /\ g_samples = 0
  /\ g_token = -1
  /\ g_timed_out = FALSE
  /\ g_exit = "none"
  /\ g_error = "none"
  /\ g_status = "none"
  /\ g_parsed = FALSE
  /\ g_stop_reason = "none"
  /\ g_tool_calls = 0

GenParked ==
  /\ g_max_tokens_req = 0
  /\ g_has_tools = FALSE
  /\ g_input_tokens = 0
  /\ g_n_ctx = 0
  /\ g_pc = "parked"
  /\ g_pos = 0
  /\ g_logits_idx = 0
  /\ g_iter = 0
  /\ g_out = 0
  /\ g_samples = 0
  /\ g_token = -1
  /\ g_timed_out = FALSE
  /\ g_exit = "none"
  /\ g_error = "none"
  /\ g_status = "none"
  /\ g_parsed = FALSE
  /\ g_stop_reason = "none"
  /\ g_tool_calls = 0

\* The inputs of the request.
genInputs == <<g_max_tokens_req, g_has_tools, g_input_tokens, g_n_ctx>>

\* map_err(Status::internal)? : the request returns an Internal status.
GenFail(error) ==
  /\ g_error' = error
  /\ g_status' = "Internal"
  /\ g_pc' = "done"

\* complete: ctx.tokenize(&prompt, true, true).
GenTokenize ==
  /\ g_pc = "tokenize"
  /\ \/ /\ g_pc' = "decode_prompt"
        /\ UNCHANGED <<g_error, g_status>>
     \/ GenFail("Tokenization")
  /\ UNCHANGED <<genInputs, g_pos, g_logits_idx, g_iter, g_out, g_samples, g_token,
                 g_timed_out, g_exit, g_parsed, g_stop_reason, g_tool_calls>>
  /\ UNCHANGED notGenVars

\* complete: ctx.decode(&tokens, 0), then pos = tokens.len() and
\* logits_idx = (tokens.len() - 1) as i32.  With no token the subtraction
\* overflows: a build with overflow checks panics, one without wraps to -1.
GenDecodePrompt ==
  /\ g_pc = "decode_prompt"
  /\ LET check == DecodeCheck(g_input_tokens, 0, g_n_ctx)
     IN  \/ /\ check = "exceeded"
            /\ GenFail("ContextWindowExceeded")
            /\ UNCHANGED <<g_pos, g_logits_idx>>
         \/ /\ check = "run"
            /\ GenFail("Decode")
            /\ UNCHANGED <<g_pos, g_logits_idx>>
         \/ /\ check = "run"
            /\ g_pos' = g_input_tokens
            /\ g_logits_idx' = g_input_tokens - 1
            /\ g_pc' = "loop"
            /\ UNCHANGED <<g_error, g_status>>
         \/ /\ check = "noop"
            /\ g_pos' = 0
            /\ g_logits_idx' = -1
            /\ g_pc' = "loop"
            /\ UNCHANGED <<g_error, g_status>>
         \/ /\ check = "noop"
            /\ g_pc' = "panicked"
            /\ UNCHANGED <<g_pos, g_logits_idx, g_error, g_status>>
  /\ UNCHANGED <<genInputs, g_iter, g_out, g_samples, g_token,
                 g_timed_out, g_exit, g_parsed, g_stop_reason, g_tool_calls>>
  /\ UNCHANGED notGenVars

\* complete: `for _ in 0..max_tokens` has no turn left.
GenLoopEnd ==
  /\ g_pc = "loop"
  /\ g_iter >= EffectiveMaxTokens(g_max_tokens_req)
  /\ g_exit' = "exhausted"
  /\ g_pc' = "detokenize"
  /\ UNCHANGED <<genInputs, g_pos, g_logits_idx, g_iter, g_out, g_samples, g_token,
                 g_timed_out, g_error, g_status, g_parsed, g_stop_reason, g_tool_calls>>
  /\ UNCHANGED notGenVars

\* complete: a turn of the loop finds generation_start.elapsed() above
\* GENERATION_TIMEOUT.
GenTimeout ==
  /\ g_pc = "loop"
  /\ g_iter < EffectiveMaxTokens(g_max_tokens_req)
  /\ g_timed_out' = TRUE
  /\ g_exit' = "timeout"
  /\ g_pc' = "detokenize"
  /\ UNCHANGED <<genInputs, g_pos, g_logits_idx, g_iter, g_out, g_samples, g_token,
                 g_error, g_status, g_parsed, g_stop_reason, g_tool_calls>>
  /\ UNCHANGED notGenVars

\* The ids sample may return: the two EOS ids of the loop and another token.
Tokens == {0, 1, 2}

\* An EOS check that knows id 0 only.
IsEos_ZeroOnly(token) == token = 0

\* if next_token == 0 || next_token == 2 { break }
IsEos(token) == token = 0 \/ token = 2

\* complete: a turn of the loop within the time: get_logits and sample, the
\* EOS check, the push and the decode of the new token.  Logits read at
\* index -1 of a context that decoded nothing are whatever the library
\* returns: a token, or a crash.
GenStep ==
  /\ g_pc = "loop"
  /\ g_iter < EffectiveMaxTokens(g_max_tokens_req)
  /\ \/ \E token \in Tokens :
          /\ g_token' = token
          /\ g_samples' = g_samples + 1
          /\ \/ \* the token is EOS: break
                /\ IsEos(token)
                /\ g_exit' = "eos"
                /\ g_pc' = "detokenize"
                /\ UNCHANGED <<g_pos, g_logits_idx, g_iter, g_out, g_error, g_status>>
             \/ \* the token is pushed and decoded
                /\ ~IsEos(token)
                /\ DecodeCheck(1, g_pos, g_n_ctx) = "run"
                /\ g_out' = g_out + 1
                /\ g_pos' = g_pos + 1
                /\ g_logits_idx' = 0
                /\ g_iter' = g_iter + 1
                /\ UNCHANGED <<g_pc, g_exit, g_error, g_status>>
             \/ \* the token is pushed and llama_decode fails
                /\ ~IsEos(token)
                /\ DecodeCheck(1, g_pos, g_n_ctx) = "run"
                /\ g_out' = g_out + 1
                /\ GenFail("Decode")
                /\ UNCHANGED <<g_pos, g_logits_idx, g_iter, g_exit>>
             \/ \* the token is pushed and does not fit the context
                /\ ~IsEos(token)
                /\ DecodeCheck(1, g_pos, g_n_ctx) = "exceeded"
                /\ g_out' = g_out + 1
                /\ GenFail("ContextWindowExceeded")
                /\ UNCHANGED <<g_pos, g_logits_idx, g_iter, g_exit>>
     \/ \* the read of the logits crashes
        /\ g_logits_idx < 0
        /\ g_pc' = "panicked"
        /\ UNCHANGED <<g_pos, g_logits_idx, g_iter, g_out, g_samples, g_token,
                       g_exit, g_error, g_status>>
  /\ UNCHANGED <<genInputs, g_timed_out, g_parsed, g_stop_reason, g_tool_calls>>
  /\ UNCHANGED notGenVars

\* complete: ctx.detokenize(&output_tokens), parse_tool_call on the content
\* when it is asked for, and the CompletionResponse.  The content is the
\* model's: whether it parses as a tool call is open, except that the empty
\* content of no token does not.
GenRespond ==
  /\ g_pc = "detokenize"
  /\ \/ /\ GenFail("Detokenization")
        /\ UNCHANGED <<g_parsed, g_stop_reason, g_tool_calls>>
     \/ \E parsed \in BOOLEAN :
          /\ parsed => g_out > 0
          /\ g_parsed' = parsed
          /\ LET reason == StopReason(g_timed_out, g_out,
                                      EffectiveMaxTokens(g_max_tokens_req),
                                      g_has_tools, parsed)
             IN  /\ g_stop_reason' = reason
                 /\ g_tool_calls' = IF reason = "tool_use" THEN 1 ELSE 0
          /\ g_status' = "Ok"
          /\ g_pc' = "done"
          /\ UNCHANGED g_error
  /\ UNCHANGED <<genInputs, g_pos, g_logits_idx, g_iter, g_out, g_samples, g_token,
                 g_timed_out, g_exit>>
  /\ UNCHANGED notGenVars

NextGenerate ==
  \/ GenTokenize
  \/ GenDecodePrompt
  \/ GenLoopEnd
  \/ GenTimeout
  \/ GenStep
  \/ GenRespond

(***************************************************************************)
(* JSON extraction: main.rs LlmServer::extract_json.  A text is the        *)
(* sequence of its bytes; the braces, the quote and the backslash are      *)
(* ASCII, so byte offsets of the scan are character boundaries.            *)
(***************************************************************************)
\* The bytes of a text: the four the scan tells apart, and any other.
Bytes == {"{", "}", "\"", "\\", "a"}

RECURSIVE SeqsUpTo(_)
\* The texts of at most n bytes.
SeqsUpTo(n) ==
  IF n = 0 THEN {<<>>}
  ELSE LET shorter == SeqsUpTo(n - 1)
       IN  shorter \cup {Append(t, b) : t \in {u \in shorter : Len(u) = n - 1}, b \in Bytes}

Contents == SeqsUpTo(MaxContentLen)

\* content.find('{'): the index of the first '{' (from 1), 0 for None.
FindBrace(content) ==
  IF \E k \in 1..Len(content) : content[k] = "{"
  THEN CHOOSE k \in 1..Len(content) :
         content[k] = "{" /\ \A j \in 1..(k - 1) : content[j] # "{"
  ELSE 0

\* The last index of &content[start..i + 1], the offset of the scan taken
\* for an index of the text.
SliceEnd_NoStart(start, i) == i + 1
\* The last index (from 1) of &content[start..start + i + 1], where start is
\* the index (from 1) of the first byte and i the offset of the scan.
SliceEnd(start, i) == start + i

\* A scan that does not know escapes: a backslash is a byte like any other.
IsEscape_Never(byte, in_string) == FALSE
\* match byte { b'\\' if in_string => escape_next = true, ...
IsEscape(byte, in_string) == byte = "\\" /\ in_string

RECURSIVE Scan(_, _, _, _, _, _)
\* The for loop of extract_json at offset i of bytes[start..]: <<t>> for
\* Some(t), <<>> for None.
Scan(content, start, i, depth, in_string, escape_next) ==
  IF start + i > Len(content) THEN <<>>
  ELSE LET byte == content[start + i]
       IN  IF escape_next
           THEN Scan(content, start, i + 1, depth, in_string, FALSE)
           ELSE IF IsEscape(byte, in_string)
           THEN Scan(content, start, i + 1, depth, in_string, TRUE)
           ELSE IF byte = "\""
           THEN Scan(content, start, i + 1, depth, ~in_string, FALSE)
           ELSE IF byte = "{" /\ ~in_string
           THEN Scan(content, start, i + 1, depth + 1, in_string, FALSE)
           ELSE IF byte = "}" /\ ~in_string
           THEN IF depth - 1 = 0
                THEN <<SubSeq(content, start, SliceEnd(start, i))>>
                ELSE Scan(content, start, i + 1, depth - 1, in_string, FALSE)
           ELSE Scan(content, start, i + 1, depth, in_string, FALSE)

\* extract_json(content): <<t>> for Some(t), <<>> for None.
extract_json(content) ==
  LET start == FindBrace(content)
  IN  IF start = 0 THEN <<>>
      ELSE Scan(content, start, 0, 0, FALSE, FALSE)

\* A text is given to extract_json.
ExInit ==
  /\ ex_content \in Contents
  /\ ex_result = <<>>
  /\ ex_again = <<>>
  /\ ex_pc = "start"

ExParked ==
  /\ ex_content = <<>>
  /\ ex_result = <<>>
  /\ ex_again = <<>>
  /\ ex_pc = "parked"

\* parse_tool_call: Self::extract_json(content).
ExtractCall ==
  /\ ex_pc = "start"
  /\ ex_result' = extract_json(ex_content)
  /\ ex_pc' = "once"
  /\ UNCHANGED <<ex_content, ex_again>>
  /\ UNCHANGED notExVars

\* extract_json is given the substring it returned.
ExtractAgain ==
  /\ ex_pc = "once"
  /\ ex_result # <<>>
  /\ ex_again' = extract_json(ex_result[1])
  /\ ex_pc' = "twice"
  /\ UNCHANGED <<ex_content, ex_result>>
  /\ UNCHANGED notExVars

NextExtract ==
  \/ ExtractCall
  \/ ExtractAgain

(***************************************************************************)
(* Startup: main.rs main, from the is_available check to the event loop.   *)
(* The lock is held, the SIGTERM stream is registered and the socket is    *)
(* bound; the download of the download part runs as main's download_future *)
(* and the model load as a spawn_blocking task.                            *)
(***************************************************************************)
StInit ==
  /\ st_pc = "check"
  /\ st_sigterm = FALSE
  /\ st_socket = TRUE
  /\ st_lock = TRUE
  /\ st_load = "none"
  /\ st_arrived = "none"
  /\ st_taken = "none"
  /\ st_served = FALSE
  /\ st_files0 = final_files

\* The startup part at rest, for the specifications of the other parts.
StParked ==
  /\ st_pc = "parked"
  /\ st_sigterm = FALSE
  /\ st_socket = FALSE
  /\ st_lock = FALSE
  /\ st_load = "none"
  /\ st_arrived = "none"
  /\ st_taken = "none"
  /\ st_served = FALSE
  /\ st_files0 = [k \in Parts |-> NoFile]

\* The download future has been created and has not returned.
DownloadInProgress ==
  st_pc = "download" /\ ~(dl_pc = "idle" /\ dl_result # "none")

\* The load task has been spawned and has not returned.
LoadInProgress == st_pc = "load" /\ st_load = "running"

\* A SIGTERM is delivered to the process: the signal stream holds it until
\* a sigterm.recv() is polled.
StSigterm ==
  /\ st_pc \in {"check", "download", "load_spawn", "load"}
  /\ ~st_sigterm
  /\ st_sigterm' = TRUE
  /\ st_arrived' = IF DownloadInProgress THEN "download"
                   ELSE IF LoadInProgress THEN "load"
                   ELSE "other"
  /\ UNCHANGED <<st_pc, st_socket, st_lock, st_load, st_taken, st_served, st_files0>>
  /\ UNCHANGED notStVars

\* if !model_manager.is_available(&model_name).await { download } ; load
StCheckAvailable ==
  /\ st_pc = "check"
  /\ st_pc' = IF IsAvailable THEN "load_spawn" ELSE "download"
  /\ UNCHANGED <<st_sigterm, st_socket, st_lock, st_load, st_arrived, st_taken,
                 st_served, st_files0>>
  /\ UNCHANGED notStVars

\* select!, download branch: `result.context("Failed to download model")?`;
\* an Err returns from main, the process exits non-zero with no cleanup.
StDownloadDone ==
  /\ st_pc = "download"
  /\ dl_pc = "idle"
  /\ dl_result # "none"
  /\ st_pc' = IF dl_result = "Ok" THEN "load_spawn" ELSE "exit1"
  /\ UNCHANGED <<st_sigterm, st_socket, st_lock, st_load, st_arrived, st_taken,
                 st_served, st_files0>>
  /\ UNCHANGED notStVars

\* A SIGTERM branch that exits without calling cleanup_files.
AfterStartupSigterm_NoCleanup == "exit0"

\* Where main goes when sigterm.recv() completes in a startup select!:
\* cleanup_files, then std::process::exit(0).
AfterStartupSigterm == "cleanup_socket"

\* select!, sigterm branch of the download: the download future is dropped
\* where it stands, its files stay as they are.
StSigtermDownload ==
  /\ st_pc = "download"
  /\ st_sigterm
  /\ st_sigterm' = FALSE
  /\ st_taken' = "download"
  /\ st_pc' = AfterStartupSigterm
  /\ DlReturn("none", 0)
  /\ UNCHANGED <<dl_known, dl_sha256, dl_split_count, final_files, staging_files,
                 http_requests, cb_invoked, dl_fetches, verify_result>>
  /\ UNCHANGED <<st_socket, st_lock, st_load, st_arrived, st_served, st_files0>>
  /\ UNCHANGED notDlStVars

\* tokio::task::spawn_blocking(LlamaModel::load_from_file).
StLoadSpawn ==
  /\ st_pc = "load_spawn"
  /\ st_load' = "running"
  /\ st_pc' = "load"
  /\ UNCHANGED <<st_sigterm, st_socket, st_lock, st_arrived, st_taken, st_served,
                 st_files0>>
  /\ UNCHANGED notStVars

\* The blocking thread finishes load_from_file, with a model or an error.
StLoadFinish ==
  /\ st_pc = "load"
  /\ st_load = "running"
  /\ st_load' \in {"ok", "err"}
  /\ UNCHANGED <<st_pc, st_sigterm, st_socket, st_lock, st_arrived, st_taken,
                 st_served, st_files0>>
  /\ UNCHANGED notStVars

\* select!, load branch: the two `?` return from main on a panic or a load
\* error; else main builds the server and enters the event loop.
StLoadDone ==
  /\ st_pc = "load"
  /\ st_load \in {"ok", "err"}
  /\ st_pc' = IF st_load = "ok" THEN "serve" ELSE "exit1"
  /\ UNCHANGED <<st_sigterm, st_socket, st_lock, st_load, st_arrived, st_taken,
                 st_served, st_files0>>
  /\ UNCHANGED notStVars

\* select!, sigterm branch of the load.
StSigtermLoad ==
  /\ st_pc = "load"
  /\ st_sigterm
  /\ st_sigterm' = FALSE
  /\ st_taken' = "load"
  /\ st_pc' = AfterStartupSigterm
  /\ UNCHANGED <<st_socket, st_lock, st_load, st_arrived, st_served, st_files0>>
  /\ UNCHANGED notStVars

\* cleanup_files: remove_file(socket).
StCleanupSocket ==
  /\ st_pc = "cleanup_socket"
  /\ st_socket' = FALSE
  /\ st_pc' = "cleanup_lock"
  /\ UNCHANGED <<st_sigterm, st_lock, st_load, st_arrived, st_taken, st_served,
                 st_files0>>
  /\ UNCHANGED notStVars

\* cleanup_files: remove_file(lock); then std::process::exit(0).
StCleanupLockAndExit ==
  /\ st_pc = "cleanup_lock"
  /\ st_lock' = FALSE
  /\ st_pc' = "exit0"
  /\ UNCHANGED <<st_sigterm, st_socket, st_load, st_arrived, st_taken, st_served,
                 st_files0>>
  /\ UNCHANGED notStVars

\* The event loop polls the server future, which accepts a connection made
\* to the socket and hands its request to a handler.
StServeRequest ==
  /\ st_pc = "serve"
  /\ ~st_served
  /\ st_served' = TRUE
  /\ UNCHANGED <<st_pc, st_sigterm, st_socket, st_lock, st_load, st_arrived,
                 st_taken, st_files0>>
  /\ UNCHANGED notStVars

NextStartup ==
  \/ StSigterm
  \/ StCheckAvailable
  \/ DlCall
  \/ DlMkdirs
  \/ DlPartCheck
  \/ DlCleanupStale
  \/ DlFetch
  \/ DlCreate
  \/ DlStream
  \/ DlVerify
  \/ DlRename
  \/ DlCommitted
  \/ DlAttemptFailed
  \/ DlBackoffDone
  \/ StDownloadDone
  \/ StSigtermDownload
  \/ StLoadSpawn
  \/ StLoadFinish
  \/ StLoadDone
  \/ StSigtermLoad
  \/ StCleanupSocket
  \/ StCleanupLockAndExit
  \/ StServeRequest

(***************************************************************************)
(* parse_duration: main.rs, the value parser of --idle-timeout.  A string  *)
(* is the sequence of its characters, all ASCII here, so that a char index *)
(* and a byte index are the same.                                          *)
(***************************************************************************)
DurChars == {"0", "1", "h", "m", "s", "n", "u", " "}
DurDigits == {"0", "1"}
DurAlpha == {"h", "m", "s", "n", "u"}

RECURSIVE DurSeqsUpTo(_)
DurSeqsUpTo(n) ==
  IF n = 0 THEN {<<>>}
  ELSE LET shorter == DurSeqsUpTo(n - 1)
       IN shorter \cup {Append(t, c) : t \in {u \in shorter : Len(u) = n - 1},
                                       c \in DurChars}

\* The arguments of at most n characters.
DurInputs(n) == DurSeqsUpTo(n)

\* Result<Duration, String>: the seconds of the Duration, or an error.
DurOk(n) == [ok |-> TRUE, secs |-> n]
DurErr == [ok |-> FALSE, secs |-> 0]
\* parse_duration has not been called.
DurNone == [ok |-> FALSE, secs |-> -1]

\* str::trim: leading and trailing whitespace removed.
RECURSIVE TrimStart(_)
TrimStart(s) ==
  IF s # <<>> /\ s[1] = " " THEN TrimStart(Tail(s)) ELSE s

RECURSIVE TrimEnd(_)
TrimEnd(s) ==
  IF s # <<>> /\ s[Len(s)] = " " THEN TrimEnd(SubSeq(s, 1, Len(s) - 1)) ELSE s

Trim(s) == TrimEnd(TrimStart(s))

DigitValue(c) == IF c = "1" THEN 1 ELSE 0

\* str::parse::<u64>: the decimal value of a non-empty string of digits, -1
\* for the Err of any other string.
RECURSIVE ParseU64(_)
ParseU64(s) ==
  IF s = <<>> THEN -1
  ELSE IF s[Len(s)] \notin DurDigits THEN -1
  ELSE IF Len(s) = 1 THEN DigitValue(s[1])
  ELSE LET high == ParseU64(SubSeq(s, 1, Len(s) - 1))
       IN IF high < 0 THEN -1 ELSE 10 * high + DigitValue(s[Len(s)])

\* while i < chars.len() && chars[i].is_alphabetic() { i += 1 }
RECURSIVE UnitEnd(_, _)
UnitEnd(chars, i) ==
  IF i <= Len(chars) /\ chars[i] \in DurAlpha THEN UnitEnd(chars, i + 1) ELSE i

\* num_start after the arms "ns" => continue and "us" => continue: it is left
\* as it was, still pointing at the number of the skipped component.
AfterSkippedUnit(num_start) == num_start

\* The while loop of parse_duration from index i (1-based) on, and what
\* follows it; num_start = 0 stands for None.
RECURSIVE DurLoop(_, _, _, _)
DurLoop(chars, i, num_start, total_secs) ==
  IF i > Len(chars)
    THEN LET num == ParseU64(SubSeq(chars, num_start, Len(chars)))
             total == IF num_start # 0 THEN total_secs + num ELSE total_secs
         IN IF num_start # 0 /\ num < 0 THEN DurErr
            ELSE IF total = 0 THEN DurErr
            ELSE DurOk(total)
  ELSE IF chars[i] \in DurDigits
    THEN DurLoop(chars, i + 1, IF num_start = 0 THEN i ELSE num_start, total_secs)
  ELSE IF chars[i] \in DurAlpha
    THEN IF num_start = 0 THEN DurErr
         ELSE LET num == ParseU64(SubSeq(chars, num_start, i - 1))
                  j == UnitEnd(chars, i)
                  unit == SubSeq(chars, i, j - 1)
              IN IF num < 0 THEN DurErr
                 ELSE IF unit \in {<<"n", "s">>, <<"u", "s">>}
                   THEN DurLoop(chars, j, AfterSkippedUnit(num_start), total_secs)
                 ELSE IF unit = <<"m", "s">>
                   THEN DurLoop(chars, j, 0,
                                IF num >= 1000 THEN total_secs + num \div 1000
                                ELSE total_secs)
                 ELSE IF unit = <<"s">> THEN DurLoop(chars, j, 0, total_secs + num)
                 ELSE IF unit = <<"m">> THEN DurLoop(chars, j, 0, total_secs + num * 60)
                 ELSE IF unit = <<"h">> THEN DurLoop(chars, j, 0, total_secs + num * 3600)
                 ELSE DurErr
  ELSE DurLoop(chars, i + 1, num_start, total_secs)

parse_duration(s) ==
  LET chars == Trim(s)
  IN IF chars = <<>> THEN DurErr ELSE DurLoop(chars, 1, 0, 0)

PdInit ==
  /\ pd_input \in DurInputs(MaxDurLen)
  /\ pd_result = DurNone
  /\ pd_pc = "start"

\* The duration part at rest, for the specifications of the other parts.
PdParked ==
  /\ pd_input = <<>>
  /\ pd_result = DurNone
  /\ pd_pc = "parked"

\* clap calls the value parser on the argument of --idle-timeout.
ParseDurationCall ==
  /\ pd_pc = "start"
  /\ pd_result' = parse_duration(pd_input)
  /\ pd_pc' = "done"
  /\ UNCHANGED pd_input
  /\ UNCHANGED notPdVars

NextDuration ==
  \/ ParseDurationCall

(***************************************************************************)
(* The Shutdown RPC of main.rs, one step per operation of the handler: the *)
(* store of the flag, the send on the shutdown channel, the response.  One *)
(* client calls it again and again.                                        *)
(***************************************************************************)
\* A response that repeats the request's `graceful` field.
Accepted_Graceful(graceful) == graceful
\* Ok(Response::new(ShutdownResponse { accepted: true })).
Accepted(graceful) == TRUE

SdInit ==
  /\ sd_pc = "idle"
  /\ sd_graceful = FALSE
  /\ sd_accepted = <<>>

\* The step-by-step handler at rest, for the other specifications.
SdParked ==
  /\ sd_pc = "parked"
  /\ sd_graceful = FALSE
  /\ sd_accepted = <<>>

\* shutdown: request.into_inner(), self.shutting_down.store(true, SeqCst).
SdStore ==
  /\ Alive
  /\ sd_pc = "idle"
  /\ \E graceful \in BOOLEAN :
       /\ sd_graceful' = graceful
       /\ shutting_down' = ShutdownFlag(graceful)
  /\ sd_pc' = "send"
  /\ UNCHANGED <<in_flight, rq_pc, rq_status, rq_out, ctx_owner, kv_owner, kv_len,
                 activity_ch, shutdown_ch, supVars, since_drop, sd_accepted>>
  /\ UNCHANGED notSrvSdVars

\* shutdown: self.shutdown_tx.send(()).await.  The send waits while the
\* channel is full; once the server future has received the signal its
\* receiver is gone and the send returns Err, which is only logged.
SdSend ==
  /\ Alive
  /\ sd_pc = "send"
  /\ IF srv_state = "serving"
     THEN /\ shutdown_ch < ShutdownCapacity
          /\ shutdown_ch' = shutdown_ch + 1
     ELSE UNCHANGED shutdown_ch
  /\ sd_pc' = "respond"
  /\ UNCHANGED <<handlerVars, activity_ch, supVars, since_drop, sd_graceful,
                 sd_accepted>>
  /\ UNCHANGED notSrvSdVars

\* shutdown: Ok(Response::new(ShutdownResponse { accepted: true })).
SdRespond ==
  /\ Alive
  /\ sd_pc = "respond"
  /\ sd_accepted' = <<Accepted(sd_graceful)>>
  /\ sd_pc' = "idle"
  /\ UNCHANGED <<srvVars, sd_graceful>>
  /\ UNCHANGED notSrvSdVars

\* The handlers, the Shutdown RPC step by step, the event loop, the drain and
\* the exit of main.
NextShutdown ==
  \/ \E r \in Requests : RqStart(r)
  \/ \E r \in Requests : RqActivity(r)
  \/ \E r \in Requests : RqIncrement(r)
  \/ \E r \in Requests : RqLock(r)
  \/ \E r \in Requests : RqClear(r)
  \/ \E r \in Requests : RqTokenize(r)
  \/ \E r \in Requests : RqDecodePrompt(r)
  \/ \E r \in Requests : RqGenerate(r)
  \/ \E r \in Requests : RqDetokenize(r)
  \/ \E r \in Requests : RqReturn(r)
  \/ SdStore
  \/ SdSend
  \/ SdRespond
  \/ ServerShutdownSignal
  \/ LoopServerStopped
  \/ LoopIdleTimeout
  \/ LoopSigterm
  \/ LoopActivity
  \/ SupStore
  \/ DrainPoll
  \/ DrainSleepDone
  \/ DrainSigterm
  \/ SupCleanupSocket
  \/ SupCleanupLockAndExit
  \/ Tick
  \/ SigtermArrives

(***************************************************************************)
(* The specifications.                                                     *)
(***************************************************************************)
InitLock == LockInit /\ DlParked /\ SrvParked /\ SelParked /\ GenParked /\ ExParked /\ StParked /\ PdParked /\ SdParked

SpecLock == InitLock /\ [][NextLock]_vars

InitDownload == DlInit /\ LockParked /\ SrvParked /\ SelParked /\ GenParked /\ ExParked /\ StParked /\ PdParked /\ SdParked

SpecDownload == InitDownload /\ [][NextDownload]_vars

InitComplete == SrvInit(NRequests) /\ LockParked /\ DlParked /\ SelParked /\ GenParked /\ ExParked /\ StParked /\ PdParked /\ SdParked

SpecComplete == InitComplete /\ [][NextComplete]_vars

InitServe == SrvInit(NServed) /\ LockParked /\ DlParked /\ SelParked /\ GenParked /\ ExParked /\ StParked /\ PdParked /\ SdParked

SpecServe == InitServe /\ [][NextServe]_vars

\* The steps of main after the event loop are steps of one task that the
\* runtime keeps polling, and time passes.
SupervisorFairness ==
  /\ WF_vars(SupStore)
  /\ WF_vars(DrainPoll)
  /\ WF_vars(DrainSleepDone)
  /\ WF_vars(SupCleanupSocket)
  /\ WF_vars(SupCleanupLockAndExit)
  /\ WF_vars(Tick)

SpecServeFair == InitServe /\ [][NextServe]_vars /\ SupervisorFairness

InitSelect == SelInit /\ LockParked /\ DlParked /\ SrvParked /\ GenParked /\ ExParked /\ StParked /\ PdParked /\ SdParked

SpecSelect == InitSelect /\ [][NextSelect]_vars

InitGenerate == GenInit /\ LockParked /\ DlParked /\ SrvParked /\ SelParked /\ ExParked /\ StParked /\ PdParked /\ SdParked

SpecGenerate == InitGenerate /\ [][NextGenerate]_vars

InitExtract == ExInit /\ LockParked /\ DlParked /\ SrvParked /\ SelParked /\ GenParked /\ StParked /\ PdParked /\ SdParked

SpecExtract == InitExtract /\ [][NextExtract]_vars

InitStartup == DlInit /\ StInit /\ LockParked /\ SrvParked /\ SelParked /\ GenParked /\ ExParked /\ PdParked /\ SdParked

SpecStartup == InitStartup /\ [][NextStartup]_vars

\* main is scheduled: a select! whose signal branch is ready is taken, the
\* load is spawned and cleanup_files runs.  Nothing is assumed of the download
\* or of the load, which may never complete.
StartupFairness ==
  /\ WF_vars(StSigtermDownload)
  /\ WF_vars(StSigtermLoad)
  /\ WF_vars(StLoadSpawn)
  /\ WF_vars(StCleanupSocket)
  /\ WF_vars(StCleanupLockAndExit)

SpecStartupFair == InitStartup /\ [][NextStartup]_vars /\ StartupFairness

InitDuration ==
  PdInit /\ LockParked /\ DlParked /\ SrvParked /\ SelParked /\ GenParked /\ ExParked /\ StParked /\ SdParked

SpecDuration == InitDuration /\ [][NextDuration]_vars

\* The daemon at "Server ready" with one Complete request to come and a client
\* of the Shutdown RPC.
InitShutdown == SrvInit(1) /\ SdInit /\ LockParked /\ DlParked /\ SelParked /\ GenParked /\ ExParked /\ StParked /\ PdParked

SpecShutdown == InitShutdown /\ [][NextShutdown]_vars

\* Invocations that acquired the single-instance lock and have not exited.
LockHolders == {p \in Procs : lk_pc[p] \in LockHeldPcs}

\* C2: for any interleaving of serve invocations sharing TSUKU_HOME, at most
\* one process at a time has acquired the single-instance lock and not yet
\* exited (every other invocation fails acquire_lock and exits non-zero).
C2_SingleInstance == Cardinality(LockHolders) <= 1

(***************************************************************************)
(* Claims on the serving phase (SpecServe, SpecComplete).                  *)
(***************************************************************************)
\* The socket file or the lock file has been removed by cleanup_files.
FilesRemoved == ~socket_exists \/ ~lock_exists

C3_RejectedAfterShutdown ==
  [][/\ shutting_down => shutting_down'
     /\ \A r \in Requests :
          (shutting_down /\ rq_pc[r] = "new" /\ rq_pc'[r] # "new") =>
            /\ rq_pc'[r] = "done"
            /\ rq_status'[r] = "Unavailable"
            /\ activity_ch' = activity_ch
            /\ in_flight' = in_flight
            /\ ctx_owner' = ctx_owner
            /\ kv_owner' = kv_owner
            /\ kv_len' = kv_len]_vars

\* A request that started during the shutdown has been rejected.
C3_Witness ==
  /\ shutting_down
  /\ \E r \in Requests : rq_pc[r] = "done" /\ rq_status[r] = "Unavailable"
  /\ in_flight = 0
  /\ ctx_owner = 0

GuardedPcs == {"lock"} \cup CtxSection

KvOf(r) ==
  CASE rq_pc[r] \in {"tokenize", "decode_prompt"} -> kv_owner = 0 /\ kv_len = 0
    [] rq_pc[r] \in {"generate", "detokenize"} ->
         kv_owner = r /\ kv_len = PromptTokens + rq_out[r]
    [] OTHER -> TRUE

\* C5: at most one handler is between context.lock() and its return, it holds
\* the mutex, every step that changes the KV cache is a step of the holder, and
\* the cache holds the tokens of the holder only.
C5_ContextSerialized ==
  /\ [](/\ Cardinality({r \in Requests : rq_pc[r] \in CtxSection}) <= 1
        /\ \A r \in Requests : rq_pc[r] \in CtxSection => ctx_owner = r /\ KvOf(r))
  /\ [][(kv_owner' # kv_owner \/ kv_len' # kv_len) =>
          /\ ctx_owner \in Requests
          /\ rq_pc[ctx_owner] \in CtxSection
          /\ \A r \in Requests \ {ctx_owner} :
               rq_pc'[r] = rq_pc[r] /\ rq_out'[r] = rq_out[r]]_vars

\* One request generates while another waits for the mutex.
C5_Witness ==
  \E r1, r2 \in Requests :
    /\ rq_pc[r1] = "generate"
    /\ rq_out[r1] > 0
    /\ rq_pc[r2] = "lock"

\* C6: a failed tokenize, decode or detokenize gives the Internal status and
\* leads to the return, which releases the mutex and decrements in_flight;
\* neither step changes shutting_down or the supervisor.
C6_FailureIsPerRequest ==
  /\ [](\A r \in Requests :
          (rq_pc[r] = "done" /\ rq_status[r] = "Internal") =>
            /\ ctx_owner # r
            /\ in_flight = Cardinality({q \in Requests : rq_pc[q] \in GuardedPcs}))
  /\ [][\A r \in Requests :
          /\ (rq_status[r] = "none" /\ rq_status'[r] = "Internal") =>
               /\ rq_pc[r] \in {"tokenize", "decode_prompt", "generate", "detokenize"}
               /\ rq_pc'[r] = "return"
               /\ shutting_down' = shutting_down
               /\ sup_pc' = sup_pc
          /\ (rq_status[r] = "Internal" /\ rq_pc[r] # "done" /\ rq_pc'[r] # rq_pc[r]) =>
               /\ rq_pc'[r] = "done"
               /\ ctx_owner = r
               /\ ctx_owner' = 0
               /\ in_flight' = in_flight - 1
               /\ shutting_down' = shutting_down
               /\ sup_pc' = sup_pc]_vars

\* After a request failed, another one was admitted and holds the context.
C6_Witness ==
  \E r1, r2 \in Requests :
    /\ rq_pc[r1] = "done"
    /\ rq_status[r1] = "Internal"
    /\ rq_pc[r2] \in CtxSection
    /\ ctx_owner = r2
    /\ ~shutting_down
    /\ sup_pc = "loop"

(***************************************************************************)
(* Claims on the model download (SpecDownload).                            *)
(***************************************************************************)
\* What a call of download reads and writes (verify writes none of it).
downloadVars == <<dl_known, dl_sha256, dl_split_count, final_files, staging_files,
                  dl_pc, dl_part, dl_attempt, dl_body, bytes_downloaded, hasher,
                  dl_delay, dl_result, dl_path, http_requests, cb_invoked, dl_fetches>>

\* C7: download is idempotent: when is_available(name) holds at the call,
\* download returns Ok(model_path(name)) at once, with no HTTP request, no
\* call of the progress callback and no file created, modified or deleted.
C7_DownloadIdempotent ==
  [][(dl_pc = "idle" /\ IsAvailable) =>
       /\ dl_pc' = "idle"
       /\ dl_result' = "Ok"
       /\ dl_path' = ModelPath
       /\ http_requests' = 0
       /\ cb_invoked' = FALSE
       /\ final_files' = final_files
       /\ staging_files' = staging_files]_downloadVars

\* A call that found the model available has returned Ok and done nothing.
C7_Witness ==
  /\ dl_pc = "idle"
  /\ dl_result = "Ok"
  /\ dl_path = ModelPath
  /\ IsAvailable
  /\ http_requests = 0
  /\ ~cb_invoked

\* C8: for every manifest entry (single-part or split, with or without a
\* checksum), when download returns Ok, is_available is true right afterwards.
C8_OkImpliesAvailable ==
  (dl_pc = "idle" /\ dl_result = "Ok") => IsAvailable

\* C9: downloaded bytes go to staging files only; a file comes to exist under
\* a final name only by the rename of a completely written staging file, and
\* for a single-part model only when its streamed SHA-256 equalled the
\* manifest value.
C9_FinalOnlyByVerifiedRename ==
  [][\A k \in Parts :
       final_files'[k] # final_files[k] =>
         \/ ~final_files'[k].exists
         \/ /\ staging_files[k].exists
            /\ staging_files[k].data = dl_body
            /\ bytes_downloaded = Len(dl_body)
            /\ final_files'[k] = staging_files[k]
            /\ ~staging_files'[k].exists
            /\ dl_split_count = 1 =>
                 /\ hasher = staging_files[k].data
                 /\ Sha256(final_files'[k].data) = dl_sha256]_dlVars

\* A split part and a checksum-verified single file have been committed.
C9_Witness ==
  /\ dl_pc = "committed"
  /\ final_files[dl_part].exists
  /\ final_files[dl_part].data = dl_body
  /\ ~staging_files[dl_part].exists

\* C10 as stated: at any crash point during download, every non-staging file
\* of the model has a SHA-256 equal to the manifest value (or none exists).
C10_AllFinalFilesMatch ==
  dl_pc \notin {"idle", "parked"} =>
    \A k \in Parts :
      final_files[k].exists => Sha256(final_files[k].data) = dl_sha256

\* Crash points of the single-file path after "Clean up existing invalid file".
AfterCleanupPcs ==
  {"fetch", "create", "stream", "verify", "rename", "committed",
   "attempt_failed", "backoff"}

\* C10 as amended: for a single-part model, at every crash point of download
\* after its stale-file cleanup, the final file is absent or has a SHA-256
\* equal to the manifest value.
C10_SingleFileFinalMatches ==
  (dl_split_count = 1 /\ dl_pc \in AfterCleanupPcs) =>
    \A k \in Parts :
      final_files[k].exists => Sha256(final_files[k].data) = dl_sha256

\* A single-part download has just committed its file and not yet returned.
C10_Witness ==
  /\ dl_split_count = 1
  /\ dl_pc = "committed"
  /\ final_files[1].exists

\* A step of a running download that is not the death of the process.
DlRuns == dl_pc # "idle" /\ ~(dl_pc' = "idle" /\ dl_result' = "none")

\* C11: a call fetches each part at most 3 times, attempt k being the k-th
\* fetch of its part; after failed attempt 1 it sleeps 1 s and after failed
\* attempt 2 it sleeps 2 s before the next fetch; after the third failure it
\* returns DownloadFailed with no sleep and no further fetch.
C11_RetryBound ==
  /\ [](\A k \in Parts : dl_fetches[k] <= 3)
  /\ [][/\ (dl_pc # "idle" /\ http_requests' # http_requests) =>
             /\ dl_pc = "fetch"
             /\ dl_attempt \in 1..3
             /\ dl_fetches'[dl_part] = dl_attempt
        /\ (DlRuns /\ dl_pc = "attempt_failed" /\ dl_attempt < 3) =>
             /\ dl_pc' = "backoff"
             /\ dl_delay' = IF dl_attempt = 1 THEN 1 ELSE 2
             /\ http_requests' = http_requests
        /\ (DlRuns /\ dl_pc = "attempt_failed" /\ dl_attempt >= 3) =>
             /\ dl_pc' = "idle"
             /\ dl_result' = "DownloadFailed"
             /\ dl_delay' = 0
             /\ http_requests' = http_requests
        /\ (DlRuns /\ dl_pc = "backoff") =>
             /\ dl_pc' = "fetch"
             /\ dl_attempt' = dl_attempt + 1
             /\ dl_part' = dl_part]_vars

\* A call has failed after three fetches of one part.
C11_Witness ==
  /\ dl_pc = "idle"
  /\ dl_result = "DownloadFailed"
  /\ \E k \in Parts : dl_fetches[k] = 3

\* Positions inside download_with_verification and download_file.
AttemptPcs == {"fetch", "create", "stream", "verify"}

C13_SplitPartsInOrder ==
  /\ []((dl_split_count > 1 /\ dl_pc = "idle" /\ dl_result = "Ok") =>
          /\ \A k \in 1..dl_split_count : final_files[k].exists
          /\ dl_path = 1)
  /\ [][(dl_split_count > 1 /\ DlRuns) =>
          /\ http_requests' # http_requests =>
               /\ ~final_files[dl_part].exists
               /\ \A j \in 1..(dl_part - 1) : final_files[j].exists
               /\ \A j \in (dl_part + 1)..dl_split_count : dl_fetches[j] = 0
          /\ (dl_pc = "part_check" /\ dl_part <= dl_split_count
                /\ final_files[dl_part].exists) =>
               /\ dl_part' = dl_part + 1
               /\ dl_fetches'[dl_part] = 0
          /\ \A k \in Parts :
               (final_files'[k] # final_files[k] \/ staging_files'[k] # staging_files[k])
                 => k = dl_part
          /\ dl_pc' # "idle" => dl_part' \in {dl_part, dl_part + 1}
          /\ (dl_pc' = "idle" /\ dl_result' = "DownloadFailed") =>
               /\ \A j \in 1..(dl_part - 1) : final_files'[j].exists
               /\ \A j \in (dl_part + 1)..dl_split_count : dl_fetches'[j] = 0]_vars

\* A split download skipped its present first part, fetched and committed the
\* second and returned Ok.
C13_Witness ==
  /\ dl_split_count = 2
  /\ dl_pc = "idle"
  /\ dl_result = "Ok"
  /\ dl_fetches[1] = 0
  /\ dl_fetches[2] > 0
  /\ final_files[2].exists

\* C14: with an empty manifest sha256 verify is true for every existing file,
\* and a single-file attempt that streamed its body without error goes on to
\* the rename.
C14_EmptyShaSkipsVerification ==
  /\ []((dl_known /\ dl_sha256 = EmptySha /\ final_files[ModelPath].exists) =>
          Verify = "true")
  /\ [][(DlRuns /\ dl_known /\ dl_sha256 = EmptySha /\ dl_split_count = 1
           /\ dl_pc = "verify") => dl_pc' = "rename"]_vars

Selected == sel_result # NoResult

\* C16: for every hardware profile, config and manifest, if select returns
\* Ok(spec) then spec.name is an entry of the manifest and spec.backend is
\* one of that entry's supported_backends, on the automatic path and on the
\* override paths alike.
C16_SelectedBackendSupported ==
  sel_result.kind = "Ok" =>
    /\ sel_result.name \in DOMAIN manifest
    /\ sel_result.backend \in manifest[sel_result.name]

\* C17: with no local_model override, select enforces a GPU floor: it fails
\* NoGpuDetected without a GPU, fails InsufficientVram below 8 GB of VRAM,
\* and otherwise selects the 14B variant from 14 GB of VRAM on and the 7B
\* variant below; no result is CPU-only or smaller than 7B.
C17_GpuFloor ==
  (Selected /\ config.local_model = <<>>) =>
    /\ profile.gpu_backend = "None" => sel_result.kind = "NoGpuDetected"
    /\ (profile.gpu_backend # "None" /\ profile.vram_bytes < 8 * GB)
         => sel_result.kind = "InsufficientVram"
    /\ sel_result.kind = "Ok" =>
         /\ sel_result.backend # "Cpu"
         /\ sel_result.name = IF profile.vram_bytes >= 14 * GB
                              THEN "qwen2.5-14b-instruct-q4"
                              ELSE "qwen2.5-7b-instruct-q4"

\* The model of the selection table for a profile, row by row.
TableModel(p) ==
  IF p.gpu_backend # "None"
  THEN CASE p.vram_bytes >= 8 * GB -> "qwen2.5-3b-instruct-q4"
         [] p.vram_bytes >= 4 * GB /\ p.vram_bytes < 8 * GB -> "qwen2.5-1.5b-instruct-q4"
         [] p.vram_bytes < 4 * GB -> "qwen2.5-0.5b-instruct-q4"
  ELSE CASE p.ram_bytes >= 16 * GB -> "qwen2.5-3b-instruct-q4"
         [] p.ram_bytes >= 8 * GB /\ p.ram_bytes < 16 * GB -> "qwen2.5-1.5b-instruct-q4"
         [] p.ram_bytes < 8 * GB -> "qwen2.5-0.5b-instruct-q4"

\* The backend detected on a profile: its GPU backend, Cpu without a GPU.
Detected(p) ==
  CASE p.gpu_backend = "Cuda" -> "Cuda"
    [] p.gpu_backend = "Metal" -> "Metal"
    [] p.gpu_backend = "Vulkan" -> "Vulkan"
    [] p.gpu_backend = "None" -> "Cpu"

\* C18: with no config overrides, select follows the selection table: less
\* than 4 GB of RAM fails InsufficientResources; otherwise the model is the
\* one of the table (3B, 1.5B, 0.5B by VRAM with a GPU, by RAM without) and
\* the backend is the detected one.  (A manifest that lacks the model of
\* the table has nothing to return; the bundled manifest has all three.)
C18_SelectionTable ==
  (Selected /\ config.local_model = <<>> /\ config.local_backend = <<>>) =>
    IF profile.ram_bytes < 4 * GB
    THEN sel_result.kind = "InsufficientResources"
    ELSE TableModel(profile) \in DOMAIN manifest =>
           sel_result = Ok(TableModel(profile), Detected(profile))

\* select returned the 1.5B model on Vulkan for exactly 4 GB of VRAM under
\* the bundled manifest with no overrides.
C18_Witness ==
  /\ manifest = DefaultManifest
  /\ config = [local_model |-> <<>>, local_backend |-> <<>>]
  /\ profile.gpu_backend = "Vulkan"
  /\ profile.vram_bytes = VRAM_THRESHOLD_MED
  /\ sel_result = Ok("qwen2.5-1.5b-instruct-q4", "Vulkan")

\* The lower-case name of each backend.
BackendWord ==
  [b \in Backends |->
     CASE b = "Cuda" -> <<"c", "u", "d", "a">>
       [] b = "Metal" -> <<"m", "e", "t", "a", "l">>
       [] b = "Vulkan" -> <<"v", "u", "l", "k", "a", "n">>
       [] b = "Cpu" -> <<"c", "p", "u">>]

\* The string s spells the lower-case word w, in any letter case.
Spells(s, w) ==
  /\ Len(s) = Len(w)
  /\ \A i \in 1..Len(s) :
       \/ s[i] = w[i]
       \/ \E j \in 1..Len(Lowercase) : Lowercase[j] = w[i] /\ Uppercase[j] = s[i]

\* The backend is available on the detected hardware.
Available(b, p) ==
  CASE b = "Cuda" -> p.gpu_backend = "Cuda"
    [] b = "Metal" -> p.gpu_backend = "Metal"
    [] b = "Vulkan" -> p.gpu_backend = "Vulkan" \/ p.gpu_backend = "Cuda"
    [] b = "Cpu" -> TRUE

\* Backend resolution as documented: <<b>> when b is resolved, <<>> when
\* the resolution fails.
Resolution(c, p) ==
  IF c.local_backend = <<>> THEN <<Detected(p)>>
  ELSE LET named == {b \in Backends : Spells(c.local_backend[1], BackendWord[b])}
           accepted == {b \in named : Available(b, p)}
       IN  IF accepted = {} THEN <<>> ELSE <<CHOOSE b \in accepted : TRUE>>

\* C19: when config.local_model is set, select ignores the resource floor
\* and the selection table: an unknown name fails InvalidConfigModel before
\* any backend check; otherwise the backend is resolved, a backend outside
\* the entry's supported_backends fails InvalidConfigBackend, and the spec
\* returned is named exactly as configured.
C19_LocalModelOverride ==
  (Selected /\ config.local_model # <<>>) =>
    LET n == config.local_model[1]
        b == Resolution(config, profile)
    IN  IF n \notin DOMAIN manifest THEN sel_result.kind = "InvalidConfigModel"
        ELSE IF b = <<>> THEN sel_result.kind = "InvalidConfigBackend"
        ELSE IF b[1] \notin manifest[n] THEN sel_result.kind = "InvalidConfigBackend"
        ELSE sel_result = Ok(n, b[1])

\* select returned the configured 3B model on a profile under the 4 GB
\* floor, where the table has no model.
C19_Witness ==
  /\ config.local_model = <<"qwen2.5-3b-instruct-q4">>
  /\ profile.gpu_backend = "None"
  /\ profile.ram_bytes < RAM_THRESHOLD_MIN
  /\ sel_result = Ok("qwen2.5-3b-instruct-q4", "Cpu")

\* select came to resolve the backend: it did not fail before on an unknown
\* local_model or on the resource floor.
ResolutionReached ==
  /\ Selected
  /\ IF config.local_model # <<>>
     THEN config.local_model[1] \in DOMAIN manifest
     ELSE profile.ram_bytes >= RAM_THRESHOLD_MIN

\* C20: backend resolution: with no local_backend the backend is the
\* detected one; a local_backend that names no backend (in any letter case)
\* fails InvalidConfigBackend; a named backend is accepted iff it is
\* available on the detected hardware (cuda on Cuda, metal on Metal, vulkan
\* on Vulkan or Cuda, cpu anywhere), and select fails InvalidConfigBackend
\* otherwise.  An accepted backend is the backend of the spec returned,
\* unless select then fails on the manifest.
C20_BackendResolution ==
  ResolutionReached =>
    LET b == Resolution(config, profile)
    IN  IF b = <<>> THEN sel_result.kind = "InvalidConfigBackend"
        ELSE \/ sel_result.kind = "Ok" /\ sel_result.backend = b[1]
             \/ /\ config.local_model # <<>>
                /\ b[1] \notin manifest[config.local_model[1]]
                /\ sel_result.kind = "InvalidConfigBackend"
             \/ /\ config.local_model = <<>>
                /\ TableModel(profile) \notin DOMAIN manifest
                /\ sel_result.kind = "InvalidConfigModel"

\* select accepted local_backend "VULKAN" on Cuda hardware and returned a
\* spec with the Vulkan backend.
C20_Witness ==
  /\ config.local_backend = << <<"V", "U", "L", "K", "A", "N">> >>
  /\ profile.gpu_backend = "Cuda"
  /\ sel_result.kind = "Ok"
  /\ sel_result.backend = "Vulkan"

(***************************************************************************)
(* Claims on one Complete request (SpecGenerate).                          *)
(***************************************************************************)
\* The effective generation limit of the request.
Limit == IF g_max_tokens_req > 0 THEN g_max_tokens_req ELSE 512

\* C21: the stop_reason of a successful Complete response follows a strict
\* priority: "timeout" if the generation loop timed out; else "max_tokens"
\* if the number of generated tokens reached the effective max_tokens; else
\* "tool_use" if tools were provided and the content parses as a tool call;
\* else "end_turn".  tool_calls has exactly one entry with "tool_use" and
\* none otherwise.  The time-out itself gives no error status: a request
\* that timed out answers Ok unless the detokenization that follows fails.
C21_StopReasonPriority ==
  /\ g_status = "Ok" =>
       /\ g_timed_out => g_stop_reason = "timeout"
       /\ (~g_timed_out /\ g_out >= Limit) => g_stop_reason = "max_tokens"
       /\ (~g_timed_out /\ g_out < Limit /\ g_has_tools /\ g_parsed)
            => g_stop_reason = "tool_use"
       /\ (~g_timed_out /\ g_out < Limit /\ ~(g_has_tools /\ g_parsed))
            => g_stop_reason = "end_turn"
       /\ g_stop_reason = "tool_use" => g_tool_calls = 1
       /\ g_stop_reason # "tool_use" => g_tool_calls = 0
  /\ (g_timed_out /\ g_status = "Internal") => g_error = "Detokenization"

\* A response whose content parses as a tool call for a request with tools,
\* and whose stop_reason is "max_tokens" because the limit was reached.
C21_Witness ==
  /\ g_status = "Ok"
  /\ g_has_tools
  /\ g_parsed
  /\ g_out >= Limit
  /\ g_stop_reason = "max_tokens"
  /\ g_tool_calls = 0

\* C22: the effective generation limit is req.max_tokens when positive and
\* 512 otherwise; the generation loop samples at most that many times, so
\* the number of generated tokens never exceeds the limit, and in a response
\* it equals the limit exactly when the loop ran out of turns without EOS
\* or time-out.
C22_GenerationBound ==
  /\ g_samples <= Limit
  /\ g_out <= Limit
  /\ g_status = "Ok" => (g_out = Limit <=> g_exit = "exhausted")

\* A request with max_tokens 0 was answered with 512 generated tokens.
C22_Witness ==
  /\ g_max_tokens_req = 0
  /\ g_status = "Ok"
  /\ g_exit = "exhausted"
  /\ g_out = 512
  /\ g_samples = 512

\* C23: complete samples a next token only while pos < n_ctx; and a prompt
\* of more than n_ctx tokens fails the request with ContextWindowExceeded (an
\* Internal status) before any token is sampled, the handler returning.
C23_ContextWindow ==
  [][/\ g_samples' > g_samples => g_pos < g_n_ctx
     /\ (g_pc = "decode_prompt" /\ g_input_tokens > g_n_ctx) =>
          /\ g_pc' = "done"
          /\ g_status' = "Internal"
          /\ g_error' = "ContextWindowExceeded"
          /\ g_samples' = 0]_genVars

(***************************************************************************)
(* Claims on the JSON extraction (SpecExtract).                            *)
(***************************************************************************)
\* C24: extract_json is idempotent: for every text s for which
\* extract_json(s) returns a substring t, extract_json(t) returns exactly t.
C24_ExtractIdempotent ==
  ex_pc = "twice" => ex_again = ex_result

\* extract_json returned the object of a text with bytes before and after
\* it, and returned it again when given it.
C24_Witness ==
  /\ ex_pc = "twice"
  /\ ex_content = <<"a", "{", "}", "}", "a">>
  /\ ex_result = << <<"{", "}">> >>
  /\ ex_again = ex_result

RECURSIVE StrState(_, _)
\* Where the first k bytes of u leave a reader of strings: "out" of any
\* string, "in" a string, or in a string after a backslash ("esc").
StrState(u, k) ==
  IF k = 0 THEN "out"
  ELSE LET before == StrState(u, k - 1)
       IN  CASE before = "esc" -> "in"
             [] before = "in" -> IF u[k] = "\\" THEN "esc"
                                 ELSE IF u[k] = "\"" THEN "out" ELSE "in"
             [] before = "out" -> IF u[k] = "\"" THEN "in" ELSE "out"

\* The byte k of u is the brace b outside of every string.
BraceAt(u, k, b) == u[k] = b /\ StrState(u, k - 1) = "out"

\* The depth of braces after the first k bytes of u, counted outside strings.
Depth(u, k) ==
  Cardinality({j \in 1..k : BraceAt(u, j, "{")})
    - Cardinality({j \in 1..k : BraceAt(u, j, "}")})

\* The closing braces of u, outside strings, at which the depth is back at 0.
Closings(u) == {k \in 1..Len(u) : BraceAt(u, k, "}") /\ Depth(u, k) = 0}

\* C25: extract_json returns none for a text without '{'; otherwise it scans
\* from the first '{', counting braces outside double-quoted strings only
\* (in a string a backslash makes the next byte inert), and returns the
\* substring from that '{' through the first '}' at which the depth is back
\* at 0, or none if there is no such '}'; a result starts with '{' and ends
\* with '}'.
C25_ExtractMatchesBraces ==
  ex_pc \in {"once", "twice"} =>
    IF \A k \in 1..Len(ex_content) : ex_content[k] # "{"
    THEN ex_result = <<>>
    ELSE LET first == CHOOSE k \in 1..Len(ex_content) :
                        ex_content[k] = "{" /\ \A j \in 1..(k - 1) : ex_content[j] # "{"
             u == SubSeq(ex_content, first, Len(ex_content))
         IN  IF Closings(u) = {}
             THEN ex_result = <<>>
             ELSE LET last == CHOOSE k \in Closings(u) : \A j \in Closings(u) : k <= j
                  IN  /\ ex_result = <<SubSeq(u, 1, last)>>
                      /\ Head(ex_result[1]) = "{"
                      /\ ex_result[1][Len(ex_result[1])] = "}"

\* extract_json returned the object whose string holds a closing brace.
C25_Witness ==
  /\ ex_pc = "once"
  /\ ex_content = <<"{", "\"", "}", "\"", "}">>
  /\ ex_result = <<ex_content>>

(***************************************************************************)
(* Claims on the idle timeout of the event loop (SpecServe).               *)
(***************************************************************************)
\* C26: in the serving loop the idle deadline is the time of the most recent
\* receive of an activity signal (the start of the loop if none) plus
\* idle_timeout; a receive moves the deadline forward, never backward; and
\* an idle-timeout shutdown is initiated only when that deadline has passed.
C26_IdleDeadline ==
  /\ [](sup_pc = "loop" => idle_left = IdleTimeout - since_recv)
  /\ [][/\ activity_ch' < activity_ch =>
             (idle_left' >= idle_left /\ idle_left' = IdleTimeout)
        /\ (shutdown_reason = "none" /\ shutdown_reason' = "idle timeout") =>
             (since_recv = IdleTimeout /\ idle_left = 0)]_srvVars

\* The loop has taken the signal of the request and the deadline is a full
\* idle_timeout away.
C26_Witness ==
  /\ sup_pc = "loop"
  /\ rq_pc[1] \notin {"new", "activity"}
  /\ activity_ch = 0
  /\ since_recv = 0
  /\ idle_left = IdleTimeout

\* C27: an activity signal never blocks a request: Complete and GetStatus
\* try_send and drop the signal when the channel is full.  A drop is
\* harmless: it happens only while an earlier signal is still queued, and no
\* idle shutdown is initiated earlier than idle_timeout after the request
\* whose signal was dropped.
C27_DropIsHarmless ==
  [][/\ (/\ sup_pc = "loop" /\ sup_pc' = "loop"
         /\ \/ since_drop' = 0 /\ since_drop > 0
            \/ \E r \in Requests : /\ rq_pc[r] = "activity" /\ rq_pc'[r] = "incr"
                                   /\ activity_ch' = activity_ch)
          => activity_ch >= 1
     /\ (shutdown_reason = "none" /\ shutdown_reason' = "idle timeout")
          => since_drop = IdleTimeout]_srvVars

C29_SigtermEndsDrain ==
  /\ [](dr_result = "interrupted" =>
          sup_pc \in {"cleanup_socket", "cleanup_lock", "exited"})
  /\ [][/\ (sup_pc = "drain_select" /\ sigterm_pending /\ ~sigterm_pending') =>
             /\ dr_result' = "interrupted"
             /\ sup_pc' = "cleanup_socket"
             /\ in_flight' = in_flight
        /\ sup_pc = "exited" => rq_pc' = rq_pc]_srvVars

\* The daemon has exited on a SIGTERM taken by the drain before the grace
\* period was over, with a request still generating.
C29_Witness ==
  /\ sup_pc = "exited"
  /\ dr_result = "interrupted"
  /\ sigterm_in_drain
  /\ dr_elapsed < GraceTicks
  /\ in_flight > 0
  /\ \E r \in Requests : rq_pc[r] = "generate"

LeftByInterruptedDownload(k) ==
  \/ final_files[k] = st_files0[k]
  \/ /\ final_files[k].data \in Bodies
     /\ dl_split_count = 1 => Sha256(final_files[k].data) = dl_sha256

HoldsFlock(p) == lk_fd[p] # 0 /\ flock_owner[lk_fd[p]] = p

\* C31: the startup steps are ordered: flock first, then the SIGTERM stream,
\* then the removal of an existing socket, then the bind, and only then the
\* hardware detection, download and load; a socket or lock file is removed
\* only by an invocation that holds its flock, and an invocation whose flock
\* fails ends without touching either file.
C31_StartupOrder ==
  /\ [](\A p \in Procs :
          lk_pc[p] \in {"registered", "stale_removed", "running"} => HoldsFlock(p))
  /\ [][\A p \in Procs :
          lk_pc'[p] # lk_pc[p] =>
            /\ lk_pc'[p] = "locked" => lk_pc[p] = "opened"
            /\ lk_pc'[p] = "registered" => lk_pc[p] = "locked"
            /\ lk_pc'[p] = "stale_removed" => lk_pc[p] = "registered"
            /\ lk_pc'[p] = "running" => lk_pc[p] = "stale_removed"
            /\ (sock_path' # sock_path \/ (lock_path # 0 /\ lock_path' = 0)) =>
                 (HoldsFlock(p) /\ lk_pc[p] \in LockHeldPcs \ {"locked"})
            /\ lk_exit'[p] = "lock_held" =>
                 (sock_path' = sock_path /\ lock_path' = lock_path)]_lockVars

\* An invocation has failed acquire_lock and exited while the instance that
\* holds the lock is past its bind, its socket in place.
C31_Witness ==
  \E p, q \in Procs :
    /\ lk_exit[p] = "lock_held"
    /\ lk_pc[q] = "running"
    /\ HoldsFlock(q)
    /\ sock_path = q
    /\ lock_path = lk_fd[q]

\* C32: shutting_down starts false, is set, to true only, by a Shutdown RPC
\* or by main after the event loop has ended, and is never reset; so once
\* GetStatus answers ready = false it never answers ready = true again.
C32_ShuttingDownMonotonic ==
  /\ ~shutting_down
  /\ [][/\ shutting_down => shutting_down'
        /\ (~shutting_down /\ shutting_down') =>
             \/ sup_pc = "store" /\ sup_pc' = "drain_poll"
             \/ /\ shutdown_ch' = Send(shutdown_ch)
                /\ UNCHANGED <<in_flight, rq_pc, activity_ch, supVars>>
        /\ ~Ready => ~Ready']_srvVars

\* A GetStatus and a Shutdown RPC have been served before any Complete
\* request and before the event loop looked at either channel: the status
\* the daemon now reports is ready = false.
C32_Witness ==
  /\ sup_pc = "loop"
  /\ ~Ready
  /\ shutdown_ch > 0
  /\ activity_ch > 0
  /\ \A r \in Requests : rq_pc[r] \in {"new", "parked"}

(***************************************************************************)
(* Claims on parse_duration (SpecDuration).                                *)
(***************************************************************************)
\* The end of the run of digits that starts at index i.
RECURSIVE DigitsEnd(_, _)
DigitsEnd(chars, i) ==
  IF i <= Len(chars) /\ chars[i] \in DurDigits THEN DigitsEnd(chars, i + 1) ELSE i

\* What a component of n and a unit contributes, in seconds; -1: unknown unit.
Contribution(n, unit) ==
  IF unit = <<"h">> THEN 3600 * n
  ELSE IF unit = <<"m">> THEN 60 * n
  ELSE IF unit = <<"s">> THEN n
  ELSE IF unit = <<"m", "s">> THEN (IF n >= 1000 THEN n \div 1000 ELSE 0)
  ELSE IF unit \in {<<"n", "s">>, <<"u", "s">>} THEN 0
  ELSE -1

\* The reference: the sum over the number+unit components from index i on,
\* a trailing bare integer counting as seconds; -1 for a malformed string.
RECURSIVE ReferenceSum(_, _, _)
ReferenceSum(chars, i, total) ==
  IF i > Len(chars) THEN total
  ELSE LET d == DigitsEnd(chars, i)
           n == ParseU64(SubSeq(chars, i, d - 1))
           j == UnitEnd(chars, d)
           c == Contribution(n, SubSeq(chars, d, j - 1))
       IN IF d = i THEN -1
          ELSE IF d > Len(chars) THEN total + n
          ELSE IF j = d \/ c < 0 THEN -1
          ELSE ReferenceSum(chars, j, total + c)

Reference(s) ==
  LET chars == Trim(s)
      sum == ReferenceSum(chars, 1, 0)
  IN IF chars = <<>> \/ sum <= 0 THEN DurErr ELSE DurOk(sum)

\* The string is made of digits and letters once trimmed.
Components(s) == \A k \in 1..Len(Trim(s)) : Trim(s)[k] # " "

\* C33: parse_duration agrees with the reference on every string made of
\* number+unit components: h, m, s and ms of 1000 or more add up, ns and us
\* are accepted and add nothing, a trailing bare integer is seconds, and the
\* result is an error iff the string is empty, malformed or sums to 0.
C33_ParseDurationReference ==
  (pd_pc = "done" /\ Components(pd_input)) => pd_result = Reference(pd_input)

(***************************************************************************)
(* Claims on the logits index and the EOS check (SpecGenerate).            *)
(***************************************************************************)
\* Size of the batch decoded last: the prompt, then one token at a time.
LastBatch == IF g_out = 0 THEN g_input_tokens ELSE 1

\* C34: every get_logits(idx) of Complete uses the index of the last token
\* of the batch decoded last, len(prompt) - 1 at first and 0 afterwards, so
\* that 0 <= idx < size of that batch; no negative or wrapped index is
\* computed, also when the prompt has no token.
C34_LogitsIndexValid ==
  /\ g_pc # "panicked"
  /\ g_pc = "loop" =>
       /\ g_logits_idx = LastBatch - 1
       /\ 0 <= g_logits_idx
       /\ g_logits_idx < LastBatch

\* C35: a sampled token 0 or 2 ends the generation unrecorded and undecoded;
\* every other token is appended and decoded at the next position, so that
\* after k appended tokens k decodes were issued at L .. L+k-1 and
\* output_tokens is k; a first sample that is EOS gives a response with no
\* output token and a stop_reason other than max_tokens.
C35_EosEndsGeneration ==
  /\ [](g_samples = g_out + (IF g_exit = "eos" THEN 1 ELSE 0))
  /\ [](g_pc \in {"loop", "detokenize"} \/ g_status = "Ok" =>
          g_pos = g_input_tokens + g_out)
  /\ []((g_status = "Ok" /\ g_exit = "eos" /\ g_samples = 1) =>
          (g_out = 0 /\ g_stop_reason # "max_tokens" /\ g_tool_calls = 0))
  /\ [][g_samples' # g_samples =>
          /\ g_token' \in {0, 2} =>
               /\ g_out' = g_out
               /\ g_pos' = g_pos
               /\ g_exit' = "eos"
               /\ g_pc' = "detokenize"
          /\ g_token' \notin {0, 2} =>
               /\ g_out' = g_out + 1
               /\ g_exit' = g_exit
               /\ g_pc' = "loop" => g_pos' = g_pos + 1
               /\ g_pc' # "loop" => (g_status' = "Internal" /\ g_pos' = g_pos)]_genVars

\* A response whose generation appended tokens and then sampled EOS id 2.
C35_Witness ==
  /\ g_status = "Ok"
  /\ g_exit = "eos"
  /\ g_token = 2
  /\ g_input_tokens > 0
  /\ g_out > 0
  /\ g_pos = g_input_tokens + g_out

\* C36: whenever the socket and lock files are removed after a drain that ended
\* because in_flight was read as 0, no Complete handler that passed the
\* shutting_down admission check is still executing.
C36_DrainCountsAdmitted ==
  (FilesRemoved /\ dr_result = "zero") =>
    \A r \in Requests : rq_pc[r] \notin RunningPcs

\* The suffix of the text that starts at its byte a.
SuffixAt(content, a) == SubSeq(content, a, Len(content))

\* The bytes at which a complete object of the text starts: a '{' from which,
\* read on its own, the braces outside strings come back to depth 0.
ObjectStarts(content) ==
  {a \in 1..Len(content) :
     content[a] = "{" /\ Closings(SuffixAt(content, a)) # {}}

\* The complete object that starts at byte a: from its '{' through the first
\* '}' at which the depth is back at 0.
ObjectAt(content, a) ==
  LET u == SuffixAt(content, a)
      last == CHOOSE k \in Closings(u) : \A j \in Closings(u) : k <= j
  IN  SubSeq(u, 1, last)

\* C37: for every text that contains at least one complete (brace-balanced,
\* string-aware) object, with any text before or after it, extract_json
\* returns the first such complete object.
C37_ExtractFindsFirstObject ==
  (ex_pc \in {"once", "twice"} /\ ObjectStarts(ex_content) # {}) =>
    LET a == CHOOSE s \in ObjectStarts(ex_content) :
               \A t \in ObjectStarts(ex_content) : s <= t
    IN  ex_result = <<ObjectAt(ex_content, a)>>

(***************************************************************************)
(* Claims on the Shutdown RPC (SpecShutdown).                              *)
(***************************************************************************)
\* C38: a Shutdown RPC sets shutting_down before it signals the main loop and
\* before it responds, answers accepted = true whatever `graceful` is, and
\* removes no file itself; every Complete request that begins after a Shutdown
\* response was sent is rejected with Unavailable, and the files are removed
\* only by the main task after the drain.
C38_ShutdownRpcOrder ==
  /\ [](sd_pc \in {"send", "respond"} => shutting_down)
  /\ []((shutdown_ch > 0 \/ srv_state # "serving") => shutting_down)
  /\ [](sd_accepted # <<>> => (sd_accepted = <<TRUE>> /\ shutting_down))
  /\ [][/\ sd_pc' # sd_pc =>
            (socket_exists' = socket_exists /\ lock_exists' = lock_exists)
        /\ \A r \in Requests :
             (sd_accepted # <<>> /\ rq_pc[r] = "new" /\ rq_pc'[r] # "new") =>
               /\ rq_pc'[r] = "done"
               /\ rq_status'[r] = "Unavailable"
               /\ in_flight' = in_flight
        /\ (socket_exists' # socket_exists \/ lock_exists' # lock_exists) =>
             /\ sup_pc \in {"cleanup_socket", "cleanup_lock"}
             /\ dr_result # "none"
             /\ sd_pc' = sd_pc]_<<srvVars, sdVars>>

\* A Shutdown with graceful = false was answered accepted = true, the request
\* that came after it was rejected, and main removed the files after the drain
\* of a server that the signal stopped.
C38_Witness ==
  /\ sd_accepted = <<TRUE>>
  /\ sd_graceful = FALSE
  /\ rq_status[1] = "Unavailable"
  /\ shutdown_reason = "server stopped"
  /\ dr_result = "zero"
  /\ ~socket_exists
  /\ ~lock_exists

(***************************************************************************)
(* Claims on what resets the idle deadline (SpecServe).                    *)
(***************************************************************************)
\* C39: the idle deadline is reset only by the receipt of an activity
\* signal, and such signals are sent only at the start of a request (an
\* admitted Complete, or any GetStatus), never by a request that completes
\* or by a change of in_flight; the idle timeout branch is ready exactly when
\* no signal was received for idle_timeout, whatever in_flight is, and is
\* taken only then; a request still running when it is taken is waited for by
\* the drain, for the grace period at most, before the files are removed.
C39_IdleResetOnlyByActivity ==
  /\ [](sup_pc = "loop" =>
          (ENABLED LoopIdleTimeout <=> since_recv = IdleTimeout))
  /\ [](sup_pc \in {"drain_poll", "drain_select"} => dr_elapsed <= GraceTicks)
  /\ []((shutdown_reason = "idle timeout" /\ FilesRemoved) =>
          \/ dr_result = "zero" /\ dr_count = 0
          \/ dr_result = "grace" /\ dr_elapsed >= GraceTicks
          \/ dr_result = "interrupted")
  /\ [][/\ idle_left' > idle_left =>
             /\ sup_pc = "loop"
             /\ activity_ch' = activity_ch - 1
             /\ idle_left' = IdleTimeout
             /\ in_flight' = in_flight
             /\ rq_pc' = rq_pc
        /\ activity_ch' > activity_ch =>
             \/ \E r \in Requests :
                  /\ rq_pc[r] = "activity"
                  /\ rq_pc'[r] = "incr"
                  /\ \A q \in Requests \ {r} : rq_pc'[q] = rq_pc[q]
             \/ rq_pc' = rq_pc /\ in_flight' = in_flight
        /\ (in_flight' # in_flight \/ \E r \in Requests :
                                        rq_pc[r] # "done" /\ rq_pc'[r] = "done") =>
             /\ idle_left' = idle_left
             /\ since_recv' = since_recv
             /\ activity_ch' = activity_ch
        /\ (shutdown_reason = "none" /\ shutdown_reason' = "idle timeout") =>
             /\ since_recv = IdleTimeout
             /\ sup_pc' = "store"
             /\ in_flight' = in_flight]_srvVars

\* The idle timeout was taken while a request was generating; the drain waited
\* for the whole grace period with the request still in flight and main went
\* on to remove the files.
C39_Witness ==
  /\ shutdown_reason = "idle timeout"
  /\ in_flight > 0
  /\ dr_result = "grace"
  /\ dr_elapsed >= GraceTicks
  /\ FilesRemoved

====
